---- MODULE Spec2Model ----
(***************************************************************************)
(* A model of Action_GIGist (src/Action_GIGIST.cpp): the per-frame grid    *)
(* accumulation of DoAction, the nearest-neighbour entropy pass of the     *)
(* post-processing handler, the six-dimensional volume correction, the    *)
(* argument handling of the initialisation handler and the FEBISS water    *)
(* placement.                                                              *)
(*                                                                         *)
(* Lengths are integers.  One voxel edge is info.voxelSize length units,   *)
(* the grid origin (info_.grid.start) is the point <<0,0,0>>.  Squared     *)
(* distances are therefore exact integers.  A quaternion is abstracted to  *)
(* an integer orientation id; the angular distance of two orientations is  *)
(* the absolute difference of their ids (a metric), NoQuat stands for the  *)
(* default-constructed, not initialized quaternion.                        *)
(***************************************************************************)
EXTENDS Integers, Sequences, FiniteSets, TLC

VARIABLES
  phase,                \* position in the life cycle of the action object
  info,                 \* info_ : grid, system and gist settings
  top,                  \* top_ : the solvent molecules of the topology
  population,           \* result_["population"], one value per voxel
  dipole,               \* result_["dipole_{x,y,z}temp"], one vector per voxel
  resultV,              \* resultV_ : per element, per voxel atom counts
  energy,               \* result_["order"|"neighbour"|"Eww"|"Esw"]: number of UpdateVoxel calls
  centersAndRotations,  \* centersAndRotations_ : per voxel list of samples
  hVectors,             \* hVectors_ : per voxel list of relative H vectors
  lastFrame,            \* the molecules handed to the last DoAction call
  anchored,             \* number of (molecule, frame) pairs whose anchor lay in the grid
  before,               \* the accumulators as they were before the last DoAction call
  dTS,                  \* per voxel entropy outputs written by the post-processing
  nn,                   \* nearest neighbour counters and the log of searches
  out,                  \* what the post-processing reported / wrote
  args,                 \* the argument list handed to the initialisation handler
  six,                  \* lookup table / argument / result of sixVolumeCorrFactor
  lay,                  \* home voxel / layer / examined voxels of the layer loop
  feb,                  \* FEBISS placement: relPop, shells, iteration record
  thr                   \* worker threads of a parallel loop: position, locals, the lock

vars == << phase, info, top, population, dipole, resultV, energy,
           centersAndRotations, hVectors, lastFrame, anchored, before,
           dTS, nn, out, args, six, lay, feb, thr >>

(***************************************************************************)
(* Bounds of the model.                                                    *)
(***************************************************************************)
MaxFrames == 3        \* molecule samples (frames of one molecule) of the entropy specification
MaxAccSamples == 2    \* molecule samples (frames times molecules) of the accumulation specification
MaxLayers == 3        \* layers of the nearest neighbour search in the layer specification
MaxTable == 3         \* entries of the correction table in the correction specification
SixDen == 2           \* NNs is drawn in steps of 1 / SixDen of the table spacing
MaxDens == 3          \* initial relative densities are 0 .. MaxDens halves of a bulk water
MaxWaters == 2        \* placement iterations in the placement specification
MaxGridDim == 2       \* griddim values are drawn from -1 .. MaxGridDim
MaxMolAtoms == 2      \* atoms of a solvent molecule in the setup specification

NoQuat == -1          \* Quaternion{} : initialized() is false
NoVoxel == -1         \* "Keep voxel at -1 if it is not possible to put it on the grid"
HUGE == 30000         \* stands for 3.40282347e+38F, above every distance of the model

(***************************************************************************)
(* Small helpers.                                                          *)
(***************************************************************************)
Abs(x) == IF x < 0 THEN -x ELSE x
Min2(a, b) == IF a < b THEN a ELSE b
Max2(a, b) == IF a > b THEN a ELSE b

RECURSIVE SumSeq(_)
SumSeq(s) == IF s = << >> THEN 0 ELSE Head(s) + SumSeq(Tail(s))

RECURSIVE SumFun(_, _)
SumFun(f, D) ==
  IF D = {} THEN 0
  ELSE LET d == CHOOSE e \in D : TRUE IN f[d] + SumFun(f, D \ {d})

VAdd(a, b) == << a[1] + b[1], a[2] + b[2], a[3] + b[3] >>
VSub(a, b) == << a[1] - b[1], a[2] - b[2], a[3] - b[3] >>
VScale(k, a) == << k * a[1], k * a[2], k * a[3] >>
Magnitude2(a) == a[1] * a[1] + a[2] * a[2] + a[3] * a[3]

(***************************************************************************)
(* The grid.                                                               *)
(***************************************************************************)
nVoxelsOf(d) == d[1] * d[2] * d[3]
Voxels == 0 .. (info.nVoxels - 1)

\* DataSet_3D::CalcIndex
CalcIndex(i, j, k) == i * (info.dimensions[2] * info.dimensions[3]) + j * info.dimensions[3] + k

\* Action_GIGist::getVoxelVec
getVoxelVec(voxel) ==
  << voxel \div (info.dimensions[3] * info.dimensions[2]),
     (voxel \div info.dimensions[3]) % info.dimensions[2],
     voxel % info.dimensions[3] >>

\* voxelIsAtGridBorder looking at the lower faces of the grid only
voxelIsAtLowerBorder(voxel) ==
  LET xyz == getVoxelVec(voxel)
  IN ~ (xyz[1] > 0 /\ xyz[2] > 0 /\ xyz[3] > 0)

\* Action_GIGist::voxelIsAtGridBorder
voxelIsAtGridBorder(voxel) ==
  LET xyz == getVoxelVec(voxel)
      dim == info.dimensions
  IN ~ ( /\ xyz[1] > 0 /\ xyz[1] < dim[1] - 1
         /\ xyz[2] > 0 /\ xyz[2] < dim[2] - 1
         /\ xyz[3] > 0 /\ xyz[3] < dim[3] - 1 )

\* GridBin::Calc : TRUE iff the point lies inside the grid.  Points are kept
\* in units of 1/info.scale length units (info.scale is 1 unless the anchor
\* is the centre of mass).
BinCalc(p) ==
  \A a \in 1..3 : p[a] >= 0 /\ p[a] < info.dimensions[a] * info.voxelSize * info.scale

\* the bin indices GridBin::Calc hands back, fed to CalcIndex
BinIndex(p) ==
  CalcIndex(p[1] \div (info.voxelSize * info.scale),
            p[2] \div (info.voxelSize * info.scale),
            p[3] \div (info.voxelSize * info.scale))

(***************************************************************************)
(* Setup: the topology.  A molecule of top is a record                     *)
(*   [elems, charge, mass] of equally long sequences, one entry per atom.  *)
(***************************************************************************)
\* Action_GIGist::weight
weight(atom) ==
  IF atom = "S" THEN 0
  ELSE IF atom = "C" THEN 1
  ELSE IF atom = "O" THEN 2
  ELSE IF atom = "" THEN 10000
  ELSE 1000

\* all (molecule, atom) pairs of the solvent in topology order
RECURSIVE AtomList(_, _)
AtomList(mols, m) ==
  IF m > Len(mols) THEN << >>
  ELSE [i \in 1..Len(mols[m].elems) |-> << m, i >>] \o AtomList(mols, m + 1)

\* Action_GIGist::setAtomInformation, the head atom part: c = <<centerAtom, centerIdx>>
RECURSIVE setAtomInformation(_, _, _)
setAtomInformation(mols, atoms, c) ==
  IF atoms = << >> THEN c
  ELSE LET a == Head(atoms)
           aName == mols[a[1]].elems[a[2]]
       IN setAtomInformation(mols, Tail(atoms),
            IF weight(aName) < weight(c[1]) THEN << aName, a[2] - 1 >> ELSE c)

\* the element names the dictionary gained: one resultV_ grid per name
SolventElems(mols) ==
  UNION { { mols[m].elems[i] : i \in 1..Len(mols[m].elems) } : m \in 1..Len(mols) }

MolMass(t) == SumSeq(t.mass)

RECURSIVE ProdMass(_, _)
ProdMass(mols, m) == IF m > Len(mols) THEN 1 ELSE MolMass(mols[m]) * ProdMass(mols, m + 1)

(***************************************************************************)
(* DoAction.  acc is the record of the accumulators DoAction writes:       *)
(*   population, dipole, resultV, energy, cr (centersAndRotations_),       *)
(*   hv (hVectors_) and crashed (an exception left DoAction).              *)
(* A molecule of a frame is [pos, quat]: the atom positions and the        *)
(* quaternion calcQuaternion derives from them when they allow one.        *)
(***************************************************************************)
Bump(f, v, by) == [f EXCEPT ![v] = @ + by]

\* Action_GIGist::calcDipole
calcDipole(acc, t, m, voxel) ==
  LET n == Len(t.elems)
      DP == [a \in 1..3 |-> SumSeq([i \in 1..n |-> t.charge[i] * m.pos[i][a]])]
  IN [acc EXCEPT !.dipole[voxel] = VAdd(@, << DP[1], DP[2], DP[3] >>)]

\* Action_GIGist::bin : <<accumulators, voxel>>
bin(acc, t, m, vec) ==
  IF BinCalc(vec)
  THEN LET voxel == BinIndex(vec)
           a1 == [acc EXCEPT !.population = Bump(@, voxel, 1)]
           a2 == IF ~info.useCOM
                 THEN [a1 EXCEPT !.resultV[info.centerAtom] = Bump(@, voxel, 1)]
                 ELSE a1
       IN << calcDipole(a2, t, m, voxel), voxel >>
  ELSE << acc, NoVoxel >>

\* Action_GIGist::calcCenterOfMass, in units of 1/info.scale
calcCenterOfMass(t, m) ==
  LET n == Len(t.elems)
      k == info.scale \div MolMass(t)
  IN [a \in 1..3 |-> k * SumSeq([i \in 1..n |-> t.mass[i] * m.pos[i][a]])]

\* a raw atom position in units of 1/info.scale
Fine(p) == VScale(info.scale, p)

\* the per atom loop of DoAction (lines 750-792); st = [acc, voxel, coord, head]
\* The flag "first" is set to true at the top of every iteration (line 751).
RECURSIVE atomLoop(_, _, _, _)
atomLoop(st, t, m, i) ==
  IF i > Len(t.elems) THEN st
  ELSE LET vec == Fine(m.pos[i])
           first == TRUE
       IN IF ~info.useCOM /\ t.elems[i] = info.centerAtom /\ first
          THEN LET b == bin(st.acc, t, m, vec)
               IN atomLoop([acc |-> b[1], voxel |-> b[2], coord |-> vec, head |-> i - 1],
                           t, m, i + 1)
          ELSE atomLoop(
                 IF BinCalc(vec)
                 THEN [st EXCEPT !.acc.resultV[t.elems[i]] = Bump(@, BinIndex(vec), 1)]
                 ELSE st,
                 t, m, i + 1)

\* Action_GIGist::calcHVectors : the vectors pushed for one molecule
\* (the first two atoms that are not the head atom, relative to the head atom)
calcHVectors(t, m, head) ==
  LET others == SelectSeq([i \in 1..Len(t.elems) |-> i], LAMBDA i : i - 1 # head)
      firstTwo == SubSeq(others, 1, Min2(2, Len(others)))
  IN [k \in 1..Len(firstTwo) |-> VSub(m.pos[firstTwo[k]], m.pos[head + 1])]

\* Action_GIGist::calcQuaternion (head atom version).  X is the first atom
\* besides the head atom that does not coincide with it, Y the last atom after
\* that one (setY is never set, so Y is overwritten up to the end of the
\* molecule).  The default quaternion is returned when X or Y has no length;
\* otherwise the rotation the geometry gives, abstracted to m.quat.
calcQuaternion(t, m, head) ==
  LET center == m.pos[head + 1]
      others == SelectSeq([i \in 1..Len(t.elems) |-> i], LAMBDA i : i - 1 # head)
      xs == SelectSeq(others, LAMBDA i : Magnitude2(VSub(m.pos[i], center)) # 0)
      ys == IF xs = << >> THEN << >> ELSE SelectSeq(others, LAMBDA i : i > Head(xs))
  IN IF xs = << >> \/ ys = << >> THEN NoQuat
     ELSE IF Magnitude2(VSub(m.pos[ys[Len(ys)]], center)) = 0 THEN NoQuat
     ELSE m.quat

\* the energy part of DoAction without CUDA (lines 919-1005): one order, Eww and
\* Esw update per atom of the molecule, one neighbour update per pair of centre
\* type atoms of different molecules closer than the cutoff
energyLoop(acc, mi, frame, voxel) ==
  LET t == top[mi]
      m == frame[mi]
      n == Len(t.elems)
      all == AtomList(top, 1)
      near == { << i, k >> \in (1..n) \X (1..Len(all)) :
                  /\ all[k][1] # mi
                  /\ t.elems[i] = info.centerAtom
                  /\ top[all[k][1]].elems[all[k][2]] = info.centerAtom
                  /\ Magnitude2(VSub(m.pos[i], frame[all[k][1]].pos[all[k][2]]))
                       < info.neighborCutoff }
  IN [acc EXCEPT !.energy.order = Bump(@, voxel, n),
                 !.energy.Eww = Bump(@, voxel, n),
                 !.energy.Esw = Bump(@, voxel, n),
                 !.energy.neighbour = Bump(@, voxel, Cardinality(near))]

\* the body of the molecule loop of DoAction (lines 724-1007) for molecule mi
doMolecule(acc, mi, frame, nFrames) ==
  LET t == top[mi]
      m == frame[mi]
      com == calcCenterOfMass(t, m)
      c0 == IF info.useCOM THEN bin(acc, t, m, com) ELSE << acc, NoVoxel >>
      st0 == [acc |-> c0[1], voxel |-> c0[2],
              coord |-> IF info.useCOM THEN com ELSE << 0, 0, 0 >>, head |-> -1]
      st == atomLoop(st0, t, m, 1)
  IN IF st.voxel = NoVoxel THEN st.acc
     ELSE IF info.febiss /\ st.head = -1
       \* calcHVectors reads molAtomCoords.at(headAtomIndex) with headAtomIndex -1
       THEN [st.acc EXCEPT !.crashed = TRUE]
     ELSE IF info.useCOM /\ ~info.quatIndicesOk
       \* calcQuaternion reads indices.at(0), indices.at(1) of a shorter quat_indices_
       THEN [st.acc EXCEPT !.crashed = TRUE]
     ELSE LET quat == IF info.useCOM THEN m.quat ELSE calcQuaternion(t, m, st.head)
              a1 == IF info.febiss
                    THEN [st.acc EXCEPT !.hv[st.voxel] = @ \o calcHVectors(t, m, st.head)]
                    ELSE st.acc
              a2 == [a1 EXCEPT !.cr[st.voxel] =
                       Append(@, [pos |-> st.coord, quat |-> quat, frame |-> nFrames])]
          IN energyLoop(a2, mi, frame, st.voxel)

RECURSIVE molLoop(_, _, _, _)
molLoop(acc, mi, frame, nFrames) ==
  IF mi > Len(top) \/ acc.crashed THEN acc
  ELSE molLoop(doMolecule(acc, mi, frame, nFrames), mi + 1, frame, nFrames)

Accumulators ==
  [population |-> population, dipole |-> dipole, resultV |-> resultV,
   energy |-> energy, cr |-> centersAndRotations, hv |-> hVectors, crashed |-> FALSE]

\* the anchor point of a molecule: the centre of mass, or the head atom (the
\* atom at info.centerIdx, the first atom of the head element); << >> if none
Anchor(t, m) ==
  IF info.useCOM THEN calcCenterOfMass(t, m)
  ELSE IF \E i \in 1..Len(t.elems) : t.elems[i] = info.centerAtom
       THEN Fine(m.pos[CHOOSE i \in 1..Len(t.elems) :
                   /\ t.elems[i] = info.centerAtom
                   /\ \A j \in 1..(i-1) : t.elems[j] # info.centerAtom])
       ELSE << >>

AnchorInGrid(t, m) == Anchor(t, m) # << >> /\ BinCalc(Anchor(t, m))

\* the molecule inputs of one frame: the molecule placed at a point of P in
\* one of the shapes S[n], a shape being [off, quat]: the displacement of
\* each of the n atoms from that point and the rotation of the geometry
MolInputs(t, P, S) ==
  LET n == Len(t.elems)
  IN { [pos |-> [i \in 1..n |-> VAdd(p, s.off[i])], quat |-> s.quat] :
         p \in P, s \in S[n] }

FrameInputs(P, S) ==
  { f \in [1..Len(top) -> UNION { MolInputs(top[i], P, S) : i \in 1..Len(top) }] :
      \A i \in 1..Len(top) : f[i] \in MolInputs(top[i], P, S) }

PostVars == << dTS, nn, out >>
OtherVars == << args, six, lay, feb, thr >>

\* Action_GIGist::DoAction for one frame whose molecules are drawn from P and S;
\* the run takes frames as long as they bring no more than maxSamples molecules
DoActionOn(P, S, maxSamples) ==
  /\ phase = "run"
  /\ (info.nFrames + 1) * Len(top) <= maxSamples
  /\ \E frame \in FrameInputs(P, S) :
       LET nF == info.nFrames + 1
           acc == molLoop(Accumulators, 1, frame, nF)
       IN /\ info' = [info EXCEPT !.nFrames = nF]
          /\ population' = acc.population
          /\ dipole' = acc.dipole
          /\ resultV' = acc.resultV
          /\ energy' = acc.energy
          /\ centersAndRotations' = acc.cr
          /\ hVectors' = acc.hv
          /\ phase' = IF acc.crashed THEN "crashed" ELSE "run"
          /\ lastFrame' = frame
          /\ before' = Accumulators
          /\ anchored' = anchored +
               Cardinality({ i \in 1..Len(top) : AnchorInGrid(top[i], frame[i]) })
  /\ UNCHANGED << top, PostVars, OtherVars >>

(***************************************************************************)
(* The entropy pass.                                                       *)
(***************************************************************************)
\* Quaternion::distance : the angular distance of two orientations
QuatDistance(q1, q2) == Abs(q1 - q2)

\* one axis of the layer loop: the coordinates c-n .. c+n that pass the test
\* "x < 0 || x >= griddims" (lines 1416-1417, 1419-1420, 1422-1423)
LayerAxis(c, n, dim) ==
  SelectSeq([i \in 1..(2 * n + 1) |-> c - n + i - 1], LAMBDA v : ~(v < 0 \/ v >= dim))

\* the test of line 1425 looking at the x and y faces only
LayerKeepsXY(xyz, n_layers, c) ==
  LET x_is_border == c[1] = xyz[1] - n_layers \/ c[1] = xyz[1] + n_layers
      y_is_border == c[2] = xyz[2] - n_layers \/ c[2] = xyz[2] + n_layers
  IN x_is_border \/ y_is_border

\* the test of line 1425: is the cell examined in layer n_layers
LayerKeeps(xyz, n_layers, c) ==
  LET x_is_border == c[1] = xyz[1] - n_layers \/ c[1] = xyz[1] + n_layers
      y_is_border == c[2] = xyz[2] - n_layers \/ c[2] = xyz[2] + n_layers
      z_is_border == c[3] = xyz[3] - n_layers \/ c[3] = xyz[3] + n_layers
  IN x_is_border \/ y_is_border \/ z_is_border

\* the cells << x, y, z >> the three nested loops of sixEntropyNearestNeighbor
\* reach in layer n_layers, in loop order (lines 1416-1425)
LayerCells(voxel, n_layers) ==
  LET griddims == info.dimensions
      xyz == getVoxelVec(voxel)
      xs == LayerAxis(xyz[1], n_layers, griddims[1])
      ys == LayerAxis(xyz[2], n_layers, griddims[2])
      zs == LayerAxis(xyz[3], n_layers, griddims[3])
      ny == Len(ys)
      nz == Len(zs)
      cells == [t \in 1..(Len(xs) * ny * nz) |->
                  << xs[((t - 1) \div (ny * nz)) + 1],
                     ys[(((t - 1) \div nz) % ny) + 1],
                     zs[((t - 1) % nz) + 1] >>]
  IN SelectSeq(cells, LAMBDA c : LayerKeeps(xyz, n_layers, c))

\* the voxels (voxel2 of line 1426) handed to calcTransEntropyDist in layer n_layers
LayerVoxels(voxel, n_layers) ==
  LET griddims == info.dimensions
      step == << griddims[3] * griddims[2], griddims[3], 1 >>
      kept == LayerCells(voxel, n_layers)
  IN [t \in 1..Len(kept) |-> kept[t][1] * step[1] + kept[t][2] * step[2] + kept[t][3] * step[3]]

\* Action_GIGist::calcTransEntropyDist from sample k of voxel2 on;
\* r = [NNd, NNs, frames]; the sample searched for is sample hi of voxel home
RECURSIVE calcTransEntropyDistFrom(_, _, _, _, _)
calcTransEntropyDistFrom(voxel2, home, hi, k, r) ==
  IF k > Len(centersAndRotations[voxel2]) THEN r
  ELSE LET quat == centersAndRotations[home][hi]
           quat2 == centersAndRotations[voxel2][k]
       IN IF voxel2 = home /\ k = hi
          THEN calcTransEntropyDistFrom(voxel2, home, hi, k + 1, r)
          ELSE IF quat.quat # NoQuat /\ quat2.quat # NoQuat
          THEN LET dd == Magnitude2(VSub(quat.pos, quat2.pos))
                   NNd == IF dd < r.NNd THEN dd ELSE r.NNd
                   rR == QuatDistance(quat.quat, quat2.quat) * info.scale
                   ds == rR * rR + dd
                   better == dd < r.NNs /\ ds < r.NNs
               IN calcTransEntropyDistFrom(voxel2, home, hi, k + 1,
                    [NNd |-> NNd,
                     NNs |-> IF better THEN ds ELSE r.NNs,
                     frames |-> IF better THEN << r.frames[1], quat2.frame >> ELSE r.frames])
          ELSE calcTransEntropyDistFrom(voxel2, home, hi, k + 1, r)

\* Action_GIGist::calcTransEntropyDist : [NNd, NNs, frames]
calcTransEntropyDist(voxel2, home, hi, NNd, NNs) ==
  calcTransEntropyDistFrom(voxel2, home, hi, 1,
    [NNd |-> NNd, NNs |-> NNs, frames |-> << centersAndRotations[home][hi].frame, 0 >>])

\* calls of calcTransEntropyDist in order; r = [NNd, NNs, frames]
RECURSIVE distCalls(_, _, _, _)
distCalls(cells, home, hi, r) ==
  IF cells = << >> THEN r
  ELSE distCalls(Tail(cells), home, hi,
                 calcTransEntropyDist(Head(cells), home, hi, r.NNd, r.NNs))

\* the calls of one layer (line 1427), in order; frames is nnFrames, which
\* every call overwrites.  A call on a voxel without samples leaves NNd and NNs
\* and hands back << frame of the sample, 0 >>, so only the voxels that hold
\* samples are folded, and nnFrames is that of the call on the last cell.
holdsSamples(voxel2) == centersAndRotations[voxel2] # << >>

\* nnFrames after the calls d of a layer: that of the call on the last cell
lastFrames(d, cells, home, hi) ==
  IF holdsSamples(cells[Len(cells)]) THEN d
  ELSE [d EXCEPT !.frames = << centersAndRotations[home][hi].frame, 0 >>]

layerCalls(cells, home, hi, r) ==
  IF cells = << >> THEN r
  ELSE lastFrames(distCalls(SelectSeq(cells, holdsSamples), home, hi, r), cells, home, hi)

\* the largest grid dimension: from this layer on no cell is inside the grid
MaxDim == Max2(info.dimensions[1], Max2(info.dimensions[2], info.dimensions[3]))

\* the safe distance of lines 1431-1432 taken one layer too far
saveDistNextLayer(n_layers) ==
  (info.voxelSize * info.scale * (n_layers + 1)) * (info.voxelSize * info.scale * (n_layers + 1))

\* lines 1431-1432 : the squared distance up to which layer n_layers is complete
saveDist(n_layers) ==
  (info.voxelSize * info.scale * n_layers) * (info.voxelSize * info.scale * n_layers)

\* the test of line 1433: go on with the next layer
goOn(quat, NNs, n_layers) == quat # NoQuat /\ NNs > saveDist(n_layers)

\* Action_GIGist::sixEntropyNearestNeighbor : [NNd, NNs, dist, uninit, layers, returns].
\* returns is FALSE when the recursion cannot come back: no layer holds a cell
\* any more and NNs is still HUGE, so that every further call recurses again.
RECURSIVE sixEntropyNearestNeighbor(_, _, _, _, _)

\* lines 1431-1437: what follows the loops of layer n_layers, which left r
afterLayer(home, hi, n_layers, r) ==
  IF goOn(centersAndRotations[home][hi].quat, r.NNs, n_layers)
  THEN IF n_layers >= MaxDim /\ r.NNs = HUGE
       THEN [NNd |-> r.NNd, NNs |-> r.NNs, dist |-> 0, uninit |-> FALSE,
             layers |-> n_layers, returns |-> FALSE]
       ELSE sixEntropyNearestNeighbor(home, hi, n_layers + 1, r.NNd, r.NNs)
  ELSE [NNd |-> r.NNd, NNs |-> r.NNs, dist |-> Abs(r.frames[2] - r.frames[1]),
        \* the loops of this call examined no cell: nnFrames (line 1415) was
        \* never assigned and line 1436 reads it uninitialized
        uninit |-> LayerVoxels(home, n_layers) = << >>,
        layers |-> n_layers, returns |-> TRUE]

sixEntropyNearestNeighbor(home, hi, n_layers, NNd, NNs) ==
  afterLayer(home, hi, n_layers,
             layerCalls(LayerVoxels(home, n_layers), home, hi,
                        [NNd |-> NNd, NNs |-> NNs, frames |-> << 0, 0 >>]))

\* Action_GIGist::updateNNFailureCount
updateNNFailureCount(c, NNd_sqr, NNs_sqr) ==
  LET save_dist == (info.voxelSize * info.scale) * (info.voxelSize * info.scale)
  IN [c EXCEPT !.nearestNeighborTransFailures = IF NNd_sqr > save_dist THEN @ + 1 ELSE @,
               !.nearestNeighborSixFailures = IF NNs_sqr > save_dist THEN @ + 1 ELSE @,
               !.nearestNeighborTotal = @ + 1]

\* an entropy output that was left at its initial 0.0
Zero == [st |-> "zero", terms |-> << >>, n |-> 0, densN |-> 0]

\* An entropy output R*T*(sum/n + EULER_MASC) is kept as the list of the
\* arguments of its log terms (terms) and its divisor n; the density
\* normalized output is the norm output times densN / (nFrames * voxelVolume).
\* st is "value" for such a number, "nan" when the divisor is 0 (0 * log(0)
\* and a division by zero), "zero" when the output is exactly 0.0.
Value(terms, n, densN) ==
  [st |-> IF n = 0 THEN "nan" ELSE "value", terms |-> terms, n |-> n, densN |-> densN]

\* the loop of lines 1316-1328 without the test of line 1321: every other
\* sample of the voxel is a candidate, oriented or not
RECURSIVE orientNNUntested(_, _, _, _)
orientNNUntested(voxel, i, k, NNr) ==
  IF k > Len(centersAndRotations[voxel]) THEN NNr
  ELSE IF k = i THEN orientNNUntested(voxel, i, k + 1, NNr)
  ELSE orientNNUntested(voxel, i, k + 1,
         IF QuatDistance(centersAndRotations[voxel][i].quat,
                         centersAndRotations[voxel][k].quat) < NNr
         THEN QuatDistance(centersAndRotations[voxel][i].quat,
                           centersAndRotations[voxel][k].quat)
         ELSE NNr)

\* the nearest orientation of sample i among the samples of the voxel (lines 1315-1328)
RECURSIVE orientNN(_, _, _, _)
orientNN(voxel, i, k, NNr) ==
  IF k > Len(centersAndRotations[voxel]) THEN NNr
  ELSE LET quat == centersAndRotations[voxel][i]
           quat2 == centersAndRotations[voxel][k]
       IN IF k = i THEN orientNN(voxel, i, k + 1, NNr)
          ELSE IF quat.quat # NoQuat /\ quat2.quat # NoQuat
               THEN LET rR == QuatDistance(quat.quat, quat2.quat)
                    IN orientNN(voxel, i, k + 1, IF rR < NNr THEN rR ELSE NNr)
               ELSE orientNN(voxel, i, k + 1, NNr)

\* the sample loop of calcOrientEntropy: the arguments NNr of the log terms
RECURSIVE orientTerms(_, _)
orientTerms(voxel, i) ==
  IF i > Len(centersAndRotations[voxel]) THEN << >>
  ELSE LET NNr == orientNN(voxel, i, 1, HUGE)
       IN (IF NNr < HUGE THEN << NNr >> ELSE << >>) \o orientTerms(voxel, i + 1)

\* calcOrientEntropy with the population test of line 1309 moved from 2 to 1
calcOrientEntropyFromOne(voxel) ==
  LET nwtotal == population[voxel]
  IN IF nwtotal < 1 THEN Zero
     ELSE LET terms == orientTerms(voxel, 1)
              water_count == Len(terms)
          IN Value(terms, water_count, water_count)

\* Action_GIGist::calcOrientEntropy
calcOrientEntropy(voxel) ==
  LET nwtotal == population[voxel]
  IN IF nwtotal < 2 THEN Zero
     ELSE LET terms == orientTerms(voxel, 1)
              water_count == Len(terms)
          IN Value(terms, water_count, water_count)

\* one pass of the sample loop of calcTransEntropy (lines 1359-1390) for the
\* sample quat, number hi of the voxel, whose search handed back d;
\* T = [t0, t2, nw_six, concerning, c, log, status, gap], gap being what a
\* read of the uninitialized nnFrames gives in this run
transStep(T, voxel, hi, quat, d) ==
  LET nw_six == IF quat.quat # NoQuat THEN T.nw_six + 1 ELSE T.nw_six
      dist == IF d.uninit THEN T.gap ELSE d.dist
      conc == IF Abs(dist) <= 3 THEN T.concerning + 1 ELSE T.concerning
      entry == [voxel |-> voxel, idx |-> hi, NNd |-> d.NNd, NNs |-> d.NNs,
                dist |-> dist, uninit |-> d.uninit, layers |-> d.layers]
  IN IF ~d.returns
     THEN [T EXCEPT !.nw_six = nw_six, !.status = "hung"]
     ELSE IF d.NNd <= 0
     \* NNd = sqrt(NNd); if (NNd <= 0) throw
     THEN [T EXCEPT !.nw_six = nw_six, !.concerning = conc,
                    !.log = Append(@, entry), !.status = "fatal"]
     ELSE [T EXCEPT !.nw_six = nw_six, !.concerning = conc,
                    !.log = Append(@, entry),
                    !.c = updateNNFailureCount(@, d.NNd, d.NNs),
                    \* if (NNd < HUGE), NNd being the square root by now
                    !.t0 = IF d.NNd < HUGE * HUGE THEN Append(@, d.NNd) ELSE @,
                    !.t2 = IF d.NNd < HUGE * HUGE /\ quat.quat # NoQuat
                           THEN Append(@, d.NNs) ELSE @]

\* the sample loop of calcTransEntropy from sample hi on; it ends with the
\* last sample, or when a pass did not come back ("hung") or threw ("fatal")
RECURSIVE transLoop(_, _, _)
transLoop(voxel, hi, T) ==
  IF hi > Len(centersAndRotations[voxel]) \/ T.status # "ok" THEN T
  ELSE transLoop(voxel, hi + 1,
         transStep(T, voxel, hi, centersAndRotations[voxel][hi],
                   sixEntropyNearestNeighbor(voxel, hi, 0, HUGE, HUGE)))

\* Action_GIGist::calcTransEntropy : [trans, six, concerning, c, log, status]
\* lines 1391-1401: the outputs from the sums T the sample loop left
transOutputs(T, nwtotal) ==
  [trans |-> IF T.t0 # << >> THEN Value(T.t0, nwtotal, nwtotal) ELSE Zero,
   six |-> IF T.t2 # << >> THEN Value(T.t2, T.nw_six, T.nw_six) ELSE Zero,
   concerning |-> T.concerning, c |-> T.c, log |-> T.log, status |-> T.status]

calcTransEntropy(voxel, c, log, gap) ==
  IF voxelIsAtGridBorder(voxel)
  THEN [trans |-> Zero, six |-> Zero, concerning |-> 0, c |-> c, log |-> log, status |-> "ok"]
  ELSE transOutputs(transLoop(voxel, 1,
                      [t0 |-> << >>, t2 |-> << >>, nw_six |-> 0, concerning |-> 0,
                       c |-> c, log |-> log, status |-> "ok", gap |-> gap]),
                    population[voxel])

\* |nnFrames.second - nnFrames.first| of line 1436 when nnFrames was never
\* assigned: some gap within 3 frames or some gap beyond
UninitGaps == {0, 4}

\* the voxels that pass the test of line 1063, in the order of the voxel loop
PopulatedVoxels ==
  SelectSeq([i \in 1..info.nVoxels |-> i - 1], LAMBDA voxel : population[voxel] > 0)

\* the voxel loop of the post-processing (lines 1040-1126) over the voxels of
\* todo, the populated voxels still to come; E = [dTS, c, concerning, log, status, gap]
\* lines 1064-1122: the entropies of one voxel stored in the grids
storeEntropy(E, voxel, dTSorient, ret) ==
  [dTS |-> IF ret.status = "ok"
           THEN [E.dTS EXCEPT ![voxel] =
                   [orient |-> dTSorient, trans |-> ret.trans, six |-> ret.six]]
           ELSE E.dTS,
   c |-> ret.c, concerning |-> E.concerning + ret.concerning,
   log |-> ret.log, status |-> ret.status, gap |-> E.gap]

RECURSIVE entropyLoop(_, _)
entropyLoop(todo, E) ==
  IF todo = << >> \/ E.status # "ok" THEN E
  ELSE entropyLoop(Tail(todo),
         storeEntropy(E, Head(todo), calcOrientEntropy(Head(todo)),
                      calcTransEntropy(Head(todo), E.c, E.log, E.gap)))

NoCounters ==
  [nearestNeighborTransFailures |-> 0, nearestNeighborSixFailures |-> 0,
   nearestNeighborTotal |-> 0]

(***************************************************************************)
(* FEBISS placement.  Densities are exact fractions << numerator,          *)
(* denominator >> in units of 1 / (voxelVolume * rho0), the density of one *)
(* bulk water, so that the threshold of line 1975 is the fraction 1.       *)
(***************************************************************************)
RECURSIVE GCD(_, _)
GCD(a, b) == IF b = 0 THEN a ELSE GCD(b, a % b)

Rat(n, d) ==
  LET g == GCD(Abs(n), Abs(d))
      sgn == IF d < 0 THEN -1 ELSE 1
  IN IF n = 0 THEN << 0, 1 >> ELSE << sgn * (n \div g), sgn * (d \div g) >>

RAdd(a, b) == Rat(a[1] * b[2] + b[1] * a[2], a[2] * b[2])
RSub(a, b) == Rat(a[1] * b[2] - b[1] * a[2], a[2] * b[2])
RMul(a, b) == Rat(a[1] * b[1], a[2] * b[2])
RDiv(a, b) == Rat(a[1] * b[2], a[2] * b[1])
RLess(a, b) == a[1] * b[2] < b[1] * a[2]
ROne == << 1, 1 >>
RZero == << 0, 1 >>

\* the centre voxel determineGridShells takes: the bin of info_.grid.center
CenterIndex == CalcIndex(info.dimensions[1] \div 2, info.dimensions[2] \div 2,
                         info.dimensions[3] \div 2)

\* squared distance of the centres of two voxels, in squared voxel edges
VoxelDist2(v, w) == Magnitude2(VSub(getVoxelVec(v), getVoxelVec(w)))

\* Action_GIGist::determineGridShells : shellcontainerKeys_, ascending
RECURSIVE SortedKeys(_)
SortedKeys(K) ==
  IF K = {} THEN << >>
  ELSE LET m == CHOOSE k \in K : \A o \in K : k <= o
       IN << m >> \o SortedKeys(K \ {m})

shellcontainerKeys == SortedKeys({ VoxelDist2(vox, CenterIndex) : vox \in Voxels })

\* Action_GIGist::determineGridShells : shellcontainer_[key], the index
\* differences vox - centerIndex in the order of vox
shellcontainer(key) ==
  LET voxs == SelectSeq([i \in 1..info.nVoxels |-> i - 1],
                        LAMBDA vox : VoxelDist2(vox, CenterIndex) = key)
  IN [i \in 1..Len(voxs) |-> voxs[i] - CenterIndex]

\* the test every user of a shell makes on a translated index
ShellIndexOk(tmpIndex) == 0 < tmpIndex /\ tmpIndex < info.nVoxels

\* the voxels shell number shellNum reaches from index, in shell order
ShellTargets(index, shellNum) ==
  LET shell == shellcontainer(shellcontainerKeys[shellNum + 1])
  IN SelectSeq([i \in 1..Len(shell) |-> index + shell[i]], ShellIndexOk)

\* Action_GIGist::addWaterShell
RECURSIVE SumDensity(_, _)
SumDensity(relPop, targets) ==
  IF targets = << >> THEN RZero
  ELSE RAdd(relPop[Head(targets)], SumDensity(relPop, Tail(targets)))

addWaterShell(densityValue, relPop, index, shellNum) ==
  RAdd(densityValue, SumDensity(relPop, ShellTargets(index, shellNum)))

\* the while loop of lines 1975-1982; w = [shellNum, densityValue, densityValueOld]
RECURSIVE growShells(_, _, _)
growShells(relPop, index, w) ==
  LET maxShellNum == Len(shellcontainerKeys) - 1
  IN IF RLess(w.densityValue, ROne) /\ w.shellNum < maxShellNum
     THEN growShells(relPop, index,
            [shellNum |-> w.shellNum + 1,
             densityValue |-> addWaterShell(w.densityValue, relPop, index, w.shellNum + 1),
             densityValueOld |-> w.densityValue])
     ELSE w

\* std::max_element : the first voxel of maximal relative density
MaxDensityIndex(relPop) ==
  CHOOSE v \in Voxels :
    /\ \A w \in Voxels : ~RLess(relPop[v], relPop[w])
    /\ \A w \in Voxels : w < v => RLess(relPop[w], relPop[v])

\* the inner shells of subtractWater (lines 2324-2333)
RECURSIVE clearShells(_, _, _, _)
clearShells(relPop, index, i, shellNum) ==
  IF i >= shellNum THEN relPop
  ELSE LET hit == { t \in Voxels : \E k \in 1..Len(ShellTargets(index, i)) :
                                      ShellTargets(index, i)[k] = t }
       IN clearShells([t \in Voxels |-> IF t \in hit THEN RZero ELSE relPop[t]],
                      index, i + 1, shellNum)

\* the share of the last shell that is taken (lines 2336-2339)
Percentage(densityValue, densityValueOld) ==
  LET last_shell == RSub(densityValue, densityValueOld)
  IN IF last_shell # RZero
     THEN RSub(ROne, RDiv(RSub(densityValue, ROne), last_shell))
     ELSE ROne

\* the outer shell of subtractWater (lines 2341-2347), target by target
RECURSIVE takeShare(_, _, _)
takeShare(relPop, targets, percentage) ==
  IF targets = << >> THEN relPop
  ELSE LET t == Head(targets)
       IN takeShare([relPop EXCEPT ![t] = RSub(@, RMul(percentage, @))],
                    Tail(targets), percentage)

\* Action_GIGist::subtractWater
subtractWater(relPop, index, shellNum, densityValue, densityValueOld) ==
  takeShare(clearShells(relPop, index, 0, shellNum),
            ShellTargets(index, shellNum),
            Percentage(densityValue, densityValueOld))

\* one pass of the loop of placeFebissWaters (lines 1920-1991):
\* the record of the iteration and the densities it leaves
placeOne(relPop) ==
  LET index == MaxDensityIndex(relPop)
      w == growShells(relPop, index,
             [shellNum |-> 0, densityValue |-> relPop[index], densityValueOld |-> RZero])
  IN [index |-> index, shellNum |-> w.shellNum, densityValue |-> w.densityValue,
      densityValueOld |-> w.densityValueOld, relPopBefore |-> relPop,
      relPop |-> subtractWater(relPop, index, w.shellNum, w.densityValue, w.densityValueOld)]

\* line 1916: static_cast<int>(round(numberSolvent * 0.95 / 3))
waterToPosition(numberSolvent) == (numberSolvent * 95 + 150) \div 300

\* Action_GIGist::placeFebissWaters : the iteration records, in order
RECURSIVE placeFebissWaters(_, _)
placeFebissWaters(relPop, n) ==
  IF n = 0 THEN << >>
  ELSE LET it == placeOne(relPop)
       IN << it >> \o placeFebissWaters(it.relPop, n - 1)

(***************************************************************************)
(* The post-processing handler.                                            *)
(***************************************************************************)
\* the solvent element names in the order the dictionary gained them
RECURSIVE ElemOrderFrom(_, _, _)
ElemOrderFrom(mols, atoms, seen) ==
  IF atoms = << >> THEN seen
  ELSE LET aName == mols[Head(atoms)[1]].elems[Head(atoms)[2]]
       IN ElemOrderFrom(mols, Tail(atoms),
            IF \E k \in 1..Len(seen) : seen[k] = aName THEN seen ELSE Append(seen, aName))

ElemOrder(mols) == ElemOrderFrom(mols, AtomList(mols, 1), << >>)

\* solventAtomCounter_ : 1 when the name is added, + 1 for every further atom
\* of the name while firstRound holds, that is within the first solvent molecule
solventAtomCounter(mols, aName) ==
  LET inFirst == Cardinality({ i \in 1..Len(mols[1].elems) : mols[1].elems[i] = aName })
  IN IF inFirst > 0 THEN inFirst ELSE 1

\* line 1124 : resultV_ divided by nFrames * voxelVolume * rho0 * solventAtomCounter_,
\* as a fraction in units of 1 / (voxelVolume * rho0)
NormalizedDensity ==
  [e \in SolventElems(top) |->
     [v \in Voxels |-> Rat(resultV[e][v], info.nFrames * solventAtomCounter(top, e))]]

\* the test of line 1129 with the two conditions joined by "or"
FebissGateEither == info.centerAtom = "O" \/ Len(ElemOrder(top)) = 2

\* the test of line 1129
FebissGate == info.centerAtom = "O" /\ Len(ElemOrder(top)) = 2

\* report: the per voxel report was written; febissError: the error of line
\* 1132 was reported; shells: the keys determineGridShells built; waters: the
\* iterations of placeFebissWaters, one per water written; g: the densities
NoOutput ==
  [report |-> FALSE, febissError |-> FALSE, shells |-> << >>, waters |-> << >>, g |-> << >>]

\* Print after its voxel loop, which left E and the densities g
PrintOutputs(E, g) ==
     LET place == info.febiss /\ FebissGate
         \* resultV_.at(info_.gist.centerIdx) of line 1913
         noGrid == place /\ info.centerIdx >= Len(ElemOrder(top))
     IN /\ dTS' = E.dTS
        /\ nn' = [c |-> E.c, concerning |-> E.concerning, log |-> E.log]
        /\ IF E.status # "ok"
           THEN /\ phase' = E.status
                /\ out' = out
           ELSE IF noGrid
           THEN /\ phase' = "crashed"
                /\ out' = [out EXCEPT !.g = g]
           ELSE /\ phase' = "printed"
                /\ out' = [report |-> TRUE,
                           febissError |-> info.febiss /\ ~FebissGate,
                           shells |-> IF place THEN shellcontainerKeys ELSE << >>,
                           waters |-> IF place
                                      THEN placeFebissWaters(g[ElemOrder(top)[info.centerIdx + 1]],
                                                             waterToPosition(info.numberSolvent))
                                      ELSE << >>,
                           g |-> g]

\* Action_GIGist::Print
PrintGist ==
  /\ phase = "run"
  /\ info.nFrames > 0
  /\ \E gap \in UninitGaps :
       PrintOutputs(entropyLoop(PopulatedVoxels,
                                [dTS |-> dTS, c |-> nn.c, concerning |-> nn.concerning,
                                 log |-> nn.log, status |-> "ok", gap |-> gap]),
                    NormalizedDensity)
  /\ UNCHANGED << info, top, population, dipole, resultV, energy, centersAndRotations,
                  hVectors, lastFrame, anchored, before, OtherVars >>

(***************************************************************************)
(* The state after Init and Setup for a topology and a set of options.     *)
(***************************************************************************)
SetupInfo(mols, dims, voxelSize, useCOM, febiss, quatIndicesOk) ==
  LET c == setAtomInformation(mols, AtomList(mols, 1), << "", -1 >>)
  IN [nVoxels |-> nVoxelsOf(dims), dimensions |-> dims, voxelSize |-> voxelSize,
      scale |-> IF useCOM THEN ProdMass(mols, 1) ELSE 1,
      useCOM |-> useCOM, febiss |-> febiss, quatIndicesOk |-> quatIndicesOk,
      centerAtom |-> c[1], centerIdx |-> c[2], neighborCutoff |-> 2,
      numberSolvent |-> Len(mols), nFrames |-> 0]

AfterSetup(i, mols) ==
  /\ phase = "run"
  /\ info = i
  /\ top = mols
  /\ population = [v \in 0..(i.nVoxels - 1) |-> 0]
  /\ dipole = [v \in 0..(i.nVoxels - 1) |-> << 0, 0, 0 >>]
  /\ resultV = [e \in SolventElems(mols) |-> [v \in 0..(i.nVoxels - 1) |-> 0]]
  /\ energy = [d \in {"order", "neighbour", "Eww", "Esw"} |-> [v \in 0..(i.nVoxels - 1) |-> 0]]
  /\ centersAndRotations = [v \in 0..(i.nVoxels - 1) |-> << >>]
  /\ hVectors = [v \in 0..(i.nVoxels - 1) |-> << >>]
  /\ lastFrame = << >>
  /\ anchored = 0
  /\ before = << >>
  /\ dTS = [v \in 0..(i.nVoxels - 1) |-> [orient |-> Zero, trans |-> Zero, six |-> Zero]]
  /\ nn = [c |-> NoCounters, concerning |-> 0, log |-> << >>]
  /\ out = NoOutput

Idle == /\ args = << >> /\ six = << >> /\ lay = << >> /\ feb = << >> /\ thr = << >>

(***************************************************************************)
(* The entropy specification: one water molecule per frame on a grid of    *)
(* 4 x 3 x 3 voxels with the interior voxels 13 and 22.                    *)
(***************************************************************************)
Water == [elems |-> << "O", "H", "H" >>, charge |-> << -2, 1, 1 >>, mass |-> << 2, 1, 1 >>]

\* the oxygen positions: one in the border voxel 4, one in voxel 13, two in voxel 22
EntropyPoints == { << x, 3, 3 >> : x \in {1, 3, 4, 5} }

\* two rotations of a proper geometry, and a geometry whose second hydrogen
\* coincides with the oxygen
EntropyShapes ==
  [n \in {3} |->
    { [off |-> << << 0, 0, 0 >>, << 1, 0, 0 >>, << 0, 1, 0 >> >>, quat |-> q] : q \in {0, 1} }
    \cup { [off |-> << << 0, 0, 0 >>, << 1, 0, 0 >>, << 0, 0, 0 >> >>, quat |-> 0] }]

Init ==
  /\ AfterSetup(SetupInfo(<< Water >>, << 4, 3, 3 >>, 2, FALSE, FALSE, TRUE), << Water >>)
  /\ Idle

DoAction == DoActionOn(EntropyPoints, EntropyShapes, MaxFrames)

Next == DoAction \/ PrintGist

Spec == Init /\ [][Next]_vars

(***************************************************************************)
(* The accumulation specification: several topologies and option sets on a *)
(* grid of 3 x 3 x 3 voxels, molecules inside and outside of the grid.     *)
(***************************************************************************)
Peroxide == [elems |-> << "O", "H", "O" >>, charge |-> << -1, 2, -1 >>, mass |-> << 2, 1, 2 >>]
Methanol == [elems |-> << "C", "O", "H" >>, charge |-> << 1, -2, 1 >>, mass |-> << 2, 2, 1 >>]
Hydroxylamine == [elems |-> << "O", "N", "H" >>, charge |-> << -2, 1, 1 >>, mass |-> << 2, 2, 1 >>]
Ion == [elems |-> << "Na" >>, charge |-> << 1 >>, mass |-> << 1 >>]

\* << topology, useCOM, febiss, quat_indices_ holds two indices >>
AccConfigs ==
  { << << Water >>, FALSE, FALSE, TRUE >>,
    << << Water >>, FALSE, TRUE, TRUE >>,
    << << Peroxide >>, FALSE, FALSE, TRUE >>,
    << << Water, Water >>, FALSE, TRUE, TRUE >>,
    << << Methanol >>, FALSE, TRUE, TRUE >>,
    << << Hydroxylamine >>, FALSE, TRUE, TRUE >>,
    << << Water >>, TRUE, FALSE, TRUE >>,
    << << Water >>, TRUE, TRUE, TRUE >>,
    << << Water >>, TRUE, FALSE, FALSE >>,
    << << Ion >>, FALSE, FALSE, TRUE >> }

\* the first atom outside of the grid, in the border voxel 4, in the interior voxel 13
AccPoints == { << x, 3, 3 >> : x \in {-1, 1, 3} }

\* a stretched geometry (atom i displaced by 2 * (i - 1) along x) and a bent one
AccShapes ==
  [n \in 1..3 |->
  { [off |-> [i \in 1..n |-> << 2 * (i - 1), 0, 0 >>], quat |-> 0],
    [off |-> [i \in 1..n |-> IF i = 1 THEN << 0, 0, 0 >> ELSE << 0, i - 2, 1 >>], quat |-> 1] }]

InitAcc ==
  /\ \E c \in AccConfigs :
       AfterSetup(SetupInfo(c[1], << 3, 3, 3 >>, 2, c[2], c[3], c[4]), c[1])
  /\ Idle

DoActionAcc == DoActionOn(AccPoints, AccShapes, MaxAccSamples)

NextAcc == DoActionAcc \/ PrintGist

SpecAcc == InitAcc /\ [][NextAcc]_vars

\* C1: after every frame the sum of the population grid equals the number of
\* (molecule, frame) pairs whose anchor point lay inside the grid.
C1_PopulationCountsAnchors ==
  phase = "run" => SumFun(population, Voxels) = anchored

\* C8: a frame in which the anchor point of every solvent molecule lies outside
\* of the grid ends without an error and leaves population, the dipole sums,
\* the order / neighbour / energy fields, the samples and the relative
\* hydrogen vectors of every voxel as they were before the frame.
C8_OutsideAnchorLeavesGrid ==
  ( /\ phase \in {"run", "crashed"}
    /\ lastFrame # << >>
    /\ \A i \in 1..Len(top) : ~AnchorInGrid(top[i], lastFrame[i]) )
  => ( /\ phase = "run"
       /\ population = before.population
       /\ dipole = before.dipole
       /\ energy = before.energy
       /\ centersAndRotations = before.cr
       /\ hVectors = before.hv )

(***************************************************************************)
(* Properties of the entropy pass.                                         *)
(***************************************************************************)
IsZero(e) == e.st = "zero"

\* C2 as stated: every voxel whose population is below 2 has all of its
\* orientational, translational and six-dimensional outputs at exactly zero.
C2_SparseVoxelAllZero ==
  \A v \in Voxels :
    population[v] < 2 =>
      IsZero(dTS[v].orient) /\ IsZero(dTS[v].trans) /\ IsZero(dTS[v].six)

\* C2 amended: a voxel whose population is below 2 has orientational outputs
\* of exactly zero; its translational and six-dimensional outputs are exactly
\* zero when its population is 0 or it lies on the grid border; an interior
\* voxel of population 1 gets a translational output from its single sample
\* once the post-processing has completed.
C2_SparseVoxelOutputs ==
  \A v \in Voxels :
    /\ population[v] < 2 => IsZero(dTS[v].orient)
    /\ (population[v] = 0 \/ voxelIsAtGridBorder(v)) =>
         IsZero(dTS[v].trans) /\ IsZero(dTS[v].six)
    /\ (phase = "printed" /\ population[v] = 1 /\ ~voxelIsAtGridBorder(v)) =>
         dTS[v].trans.st = "value" /\ dTS[v].trans.n = 1

\* C2 witness: the post-processing completed with one sample in the interior
\* voxel 13, which got a translational and a six-dimensional value, and one
\* sample in the border voxel 4, which got none.
C2_Witness ==
  /\ phase = "printed"
  /\ population[13] = 1 /\ population[4] = 1
  /\ dTS[13].trans.st = "value" /\ dTS[13].six.st = "value" /\ IsZero(dTS[13].orient)
  /\ IsZero(dTS[4].trans)

\* the squared six-dimensional distance of two samples
SixDist2(a, b) ==
  Magnitude2(VSub(a.pos, b.pos))
    + (QuatDistance(a.quat, b.quat) * info.scale) * (QuatDistance(a.quat, b.quat) * info.scale)

\* the oriented samples of the whole grid other than sample hi of voxel home
OtherOriented(home, hi) ==
  { << v, k >> \in Voxels \X (1..MaxFrames + 1) :
      /\ k <= Len(centersAndRotations[v])
      /\ << v, k >> # << home, hi >>
      /\ centersAndRotations[v][k].quat # NoQuat }

\* C4: whenever the search returned for an oriented sample of an interior
\* voxel, the NNs it returned is the minimum of the squared six-dimensional
\* distance over all other oriented samples of the grid.
C4_NearestSixNeighbour ==
  \A e \in 1..Len(nn.log) :
    LET home == nn.log[e].voxel
        hi == nn.log[e].idx
        quat == centersAndRotations[home][hi]
    IN quat.quat # NoQuat =>
         /\ \A o \in OtherOriented(home, hi) :
              nn.log[e].NNs <= SixDist2(quat, centersAndRotations[o[1]][o[2]])
         /\ \E o \in OtherOriented(home, hi) :
              nn.log[e].NNs = SixDist2(quat, centersAndRotations[o[1]][o[2]])

\* C4 witness: a search from voxel 22 stopped after layer 1 although voxel 4,
\* which only layer 2 reaches, holds an oriented sample.
C4_Witness ==
  \E e \in 1..Len(nn.log) :
    /\ nn.log[e].voxel = 22
    /\ nn.log[e].layers = 1
    /\ centersAndRotations[22][nn.log[e].idx].quat # NoQuat
    /\ \E k \in 1..Len(centersAndRotations[4]) : centersAndRotations[4][k].quat # NoQuat

\* two samples of one interior voxel recorded at exactly the same position
Coincident ==
  \E v \in Voxels : \E i, k \in 1..Len(centersAndRotations[v]) :
    /\ ~voxelIsAtGridBorder(v)
    /\ i # k
    /\ centersAndRotations[v][i].pos = centersAndRotations[v][k].pos

\* C5: when the sample store holds two distinct samples at exactly the same
\* position of an interior voxel, the post-processing does not complete: it
\* ends in the fatal error and writes no report.
C5_CoincidentIsFatal ==
  (phase = "printed" \/ out.report) => ~Coincident

(***************************************************************************)
(* The layer specification: the layer loop of sixEntropyNearestNeighbor    *)
(* run layer after layer from every home voxel of several grids.           *)
(***************************************************************************)
LayerGrids == { << 3, 3, 3 >>, << 4, 3, 2 >>, << 1, 2, 5 >>, << 2, 2, 2 >> }

InitLayer ==
  /\ \E dims \in LayerGrids :
       /\ AfterSetup(SetupInfo(<< Water >>, dims, 2, FALSE, FALSE, TRUE), << Water >>)
       /\ \E home \in 0..(nVoxelsOf(dims) - 1) : lay = [home |-> home, n |-> -1, cells |-> << >>]
  /\ args = << >> /\ six = << >> /\ feb = << >> /\ thr = << >>

\* one more layer of the search from lay.home: the cells of layer lay.n + 1
ExamineLayer ==
  /\ lay.n < MaxLayers
  /\ lay' = [lay EXCEPT !.n = @ + 1, !.cells = @ \o LayerCells(lay.home, lay.n + 1)]
  /\ UNCHANGED << phase, info, top, population, dipole, resultV, energy,
                  centersAndRotations, hVectors, lastFrame, anchored, before,
                  PostVars, args, six, feb, thr >>

NextLayer == ExamineLayer

SpecLayer == InitLayer /\ [][NextLayer]_vars

\* the cells of the grid whose offset from the home voxel is at most n on every axis
Cube(home, n) ==
  { c \in (0..(info.dimensions[1] - 1)) \X (0..(info.dimensions[2] - 1))
            \X (0..(info.dimensions[3] - 1)) :
      \A a \in 1..3 : Abs(c[a] - getVoxelVec(home)[a]) <= n }

\* C3: after the layers 0..n the loop has examined every cell of the grid whose
\* offset from the home voxel is at most n on every axis, each exactly once,
\* and no cell with a coordinate outside of the grid.
C3_LayersTileTheCube ==
  lay.n >= 0 =>
    /\ \A i, k \in 1..Len(lay.cells) : lay.cells[i] = lay.cells[k] => i = k
    /\ { lay.cells[i] : i \in 1..Len(lay.cells) } = Cube(lay.home, lay.n)
    /\ \A i \in 1..Len(lay.cells) : \A a \in 1..3 :
         lay.cells[i][a] >= 0 /\ lay.cells[i][a] < info.dimensions[a]

\* C3 witness: three layers around the corner voxel 0 of the 4 x 3 x 2 grid have
\* examined all of its 24 cells, the home cell among them.
C3_Witness ==
  /\ info.dimensions = << 4, 3, 2 >>
  /\ lay.home = 0
  /\ lay.n = 3
  /\ Len(lay.cells) = 24
  /\ lay.cells[1] = << 0, 0, 0 >>

(***************************************************************************)
(* The correction specification: sixVolumeCorrFactor on tables of two to   *)
(* MaxTable entries.  NNs / SIX_CORR_SPACING is the fraction q / SixDen,    *)
(* the factor is kept as its numerator over SixDen.                        *)
(***************************************************************************)
\* static_cast<int> of q / SixDen: truncation towards zero
TruncIndex(q) == IF q >= 0 THEN q \div SixDen ELSE -((-q) \div SixDen)

\* Action_GIGist::sixVolumeCorrFactor on the table T (SIX_CORR, first entry T[1])
sixVolumeCorrFactor(T, q) ==
  LET index == Max2(0, Min2(Len(T) - 2, TruncIndex(q)))
      dx == q - index * SixDen
  IN (SixDen - dx) * T[index + 1] + dx * T[index + 2]

\* the tables SIX_CORR is drawn from
CorrTables == UNION { [1..n -> {1, 2, 4}] : n \in 2..MaxTable }

InitCorr ==
  /\ AfterSetup(SetupInfo(<< Water >>, << 3, 3, 3 >>, 2, FALSE, FALSE, TRUE), << Water >>)
  /\ \E T \in CorrTables : six = [table |-> T, asked |-> FALSE, q |-> 0, interp |-> 0]
  /\ args = << >> /\ lay = << >> /\ feb = << >> /\ thr = << >>

\* one call of sixVolumeCorrFactor; NNs is a squared distance, never negative
CorrFactor ==
  /\ \E q \in 0..((Len(six.table) + 1) * SixDen) :
       six' = [six EXCEPT !.asked = TRUE, !.q = q,
                          !.interp = sixVolumeCorrFactor(six.table, q)]
  /\ UNCHANGED << phase, info, top, population, dipole, resultV, energy,
                  centersAndRotations, hVectors, lastFrame, anchored, before,
                  PostVars, args, lay, feb, thr >>

NextCorr == CorrFactor

SpecCorr == InitCorr /\ [][NextCorr]_vars

\* the piecewise linear interpolation of T at q / SixDen, the boundary value
\* of the table beyond its last entry (numerator over SixDen)
ClampedInterpolation(T, q) ==
  LET i == q \div SixDen
      f == q % SixDen
  IN IF i >= Len(T) - 1 THEN SixDen * T[Len(T)]
     ELSE (SixDen - f) * T[i + 1] + f * T[i + 2]

\* C6: the factor is the piecewise linear interpolation of the table, takes the
\* table value at every breakpoint, and is the last table value for every NNs
\* beyond the last breakpoint.
C6_ClampedInterpolation ==
  six.asked => six.interp = ClampedInterpolation(six.table, six.q)

(***************************************************************************)
(* The placement specification: the loop of placeFebissWaters, one         *)
(* iteration per step, on a grid of 3 x 2 x 1 voxels whose relative        *)
(* densities are drawn in halves of the density of one bulk water.         *)
(***************************************************************************)
InitFebiss ==
  /\ AfterSetup(SetupInfo(<< Water >>, << 3, 2, 1 >>, 2, FALSE, TRUE, TRUE), << Water >>)
  /\ \E relPop \in [0..5 -> { Rat(k, 2) : k \in 0..MaxDens }] :
       feb = [relPop |-> relPop, placed |-> 0, last |-> << >>]
  /\ args = << >> /\ six = << >> /\ lay = << >> /\ thr = << >>

\* one iteration of the loop of lines 1920-1991
PlaceWater ==
  /\ feb.placed < MaxWaters
  /\ LET it == placeOne(feb.relPop)
     IN feb' = [relPop |-> it.relPop, placed |-> feb.placed + 1, last |-> it]
  /\ UNCHANGED << phase, info, top, population, dipole, resultV, energy,
                  centersAndRotations, hVectors, lastFrame, anchored, before,
                  PostVars, args, six, lay, thr >>

NextFebiss == PlaceWater

SpecFebiss == InitFebiss /\ [][NextFebiss]_vars

\* C7: an iteration whose selected voxel holds exactly the density of one bulk
\* water includes no shell beyond shell 0, leaves that voxel at density 0 and
\* every other voxel as it was; and any iteration changes only voxels whose
\* distance from the selected voxel is that of one of the shells 0..shellNum.
C7_ExactDensityIsTaken ==
  feb.placed > 0 =>
    LET it == feb.last
    IN /\ it.relPopBefore[it.index] = ROne =>
            /\ it.shellNum = 0
            /\ feb.relPop[it.index] = RZero
            /\ \A v \in Voxels \ {it.index} : feb.relPop[v] = it.relPopBefore[v]
       /\ \A v \in Voxels :
            feb.relPop[v] # it.relPopBefore[v] =>
              VoxelDist2(v, it.index) <= shellcontainerKeys[it.shellNum + 1]

(***************************************************************************)
(* The initialisation specification: the handler Init on argument lists    *)
(* with and without griddim, in builds with and without CUDA and MPI.      *)
(* An argument list is [griddim, dims, doorder, skipE]: whether the key     *)
(* griddim is present and the integers that follow it; a build is          *)
(* [cuda, mpi, commSize].                                                  *)
(***************************************************************************)
\* dimArgs.getNextInteger(-1.0) for the i-th value after griddim
NextInteger(a, i) == IF i <= Len(a.dims) THEN a.dims[i] ELSE -1

\* buildGrid accepting a dimension of zero
buildGridZeroAllowed(a) ==
  LET d == << NextInteger(a, 1), NextInteger(a, 2), NextInteger(a, 3) >>
  IN IF a.griddim
     THEN IF d[1] < 0 \/ d[2] < 0 \/ d[3] < 0
          THEN [ok |-> FALSE, dimensions |-> d, nVoxels |-> 0]
          ELSE [ok |-> TRUE, dimensions |-> d, nVoxels |-> d[1] * d[2] * d[3]]
     ELSE [ok |-> FALSE, dimensions |-> << 0, 0, 0 >>, nVoxels |-> 0]

\* Action_GIGist::buildGrid : [ok, dimensions, nVoxels]; a failed call leaves
\* nVoxels as it was (0 here), a call without griddim the dimensions as well
buildGrid(a) ==
  LET d == << NextInteger(a, 1), NextInteger(a, 2), NextInteger(a, 3) >>
  IN IF a.griddim
     THEN IF d[1] <= 0 \/ d[2] <= 0 \/ d[3] <= 0
          THEN [ok |-> FALSE, dimensions |-> d, nVoxels |-> 0]
          ELSE [ok |-> TRUE, dimensions |-> d, nVoxels |-> d[1] * d[2] * d[3]]
     ELSE [ok |-> FALSE, dimensions |-> << 0, 0, 0 >>, nVoxels |-> 0]

\* Action_GIGist::analyzeInfo : the grid and the returned flag
analyzeInfo(a, build) ==
  LET g == buildGrid(a)
      calcEnergy == ~a.skipE
  IN [g EXCEPT !.ok = IF build.cuda /\ a.doorder /\ ~calcEnergy THEN FALSE ELSE g.ok]

ArgLists ==
  { [griddim |-> g, dims |-> d, doorder |-> o, skipE |-> e] :
      g \in BOOLEAN,
      d \in UNION { [1..n -> -1..MaxGridDim] : n \in 0..3 },
      o \in BOOLEAN, e \in BOOLEAN }

Builds ==
  { [cuda |-> c, mpi |-> m, commSize |-> n] : c \in BOOLEAN, m \in BOOLEAN, n \in {1, 2} }

InitNew ==
  /\ phase = "new"
  /\ \E a \in ArgLists : \E b \in Builds :
       /\ (~a.griddim => a.dims = << >>)
       /\ (~b.mpi => b.commSize = 1)
       /\ args = [list |-> a, build |-> b]
  /\ info = [dimensions |-> << 0, 0, 0 >>, nVoxels |-> 0, nFrames |-> 0]
  /\ out = [ret |-> "", reported |-> FALSE]
  /\ centersAndRotations = << >> /\ hVectors = << >> /\ dTS = << >>
  /\ top = << >> /\ population = << >> /\ dipole = << >> /\ resultV = << >>
  /\ energy = << >> /\ lastFrame = << >> /\ anchored = 0 /\ before = << >>
  /\ nn = << >> /\ six = << >> /\ lay = << >> /\ feb = << >> /\ thr = << >>

\* Action_GIGist::Init.  resizeVectors gives centersAndRotations_ one list per
\* voxel, createDatasets allocates the grids of result_ (dTS stands for them).
GistInit ==
  /\ phase = "new"
  /\ IF args.build.mpi /\ args.build.commSize > 1
     THEN /\ phase' = "error"
          /\ out' = [ret |-> "ERR", reported |-> TRUE]
          /\ UNCHANGED << info, centersAndRotations, dTS >>
     ELSE LET g == analyzeInfo(args.list, args.build)
          IN /\ info' = [info EXCEPT !.dimensions = g.dimensions, !.nVoxels = g.nVoxels]
             /\ IF ~g.ok
                THEN /\ phase' = "error"
                     /\ out' = [ret |-> "ERR", reported |-> TRUE]
                     /\ UNCHANGED << centersAndRotations, dTS >>
                ELSE /\ phase' = "initialized"
                     /\ out' = [ret |-> "OK", reported |-> FALSE]
                     /\ centersAndRotations' = [v \in 0..(g.nVoxels - 1) |-> << >>]
                     /\ dTS' = [v \in 0..(g.nVoxels - 1) |->
                                  [orient |-> Zero, trans |-> Zero, six |-> Zero]]
  /\ UNCHANGED << top, population, dipole, resultV, energy, hVectors, lastFrame,
                  anchored, before, nn, args, six, lay, feb, thr >>

NextInit == GistInit

SpecInit == InitNew /\ [][NextInit]_vars

\* the griddim argument is missing, or one of its three values is missing,
\* zero or negative
BadGriddim ==
  \/ ~args.list.griddim
  \/ \E i \in 1..3 : NextInteger(args.list, i) <= 0

GriddimProduct ==
  NextInteger(args.list, 1) * NextInteger(args.list, 2) * NextInteger(args.list, 3)

\* the build and options for which Init fails whatever the grid is
RefusedBuild ==
  \/ args.build.mpi /\ args.build.commSize > 1
  \/ args.build.cuda /\ args.list.doorder /\ args.list.skipE

\* C9 as stated: a missing or non-positive grid dimension makes Init return
\* the error, reported, with no vector resized and no dataset created; three
\* positive dimensions give nVoxels = dimx * dimy * dimz and Init succeeds.
C9_GriddimDecidesInit ==
  phase # "new" =>
    /\ BadGriddim => /\ out.ret = "ERR" /\ out.reported
                     /\ centersAndRotations = << >> /\ dTS = << >>
    /\ ~BadGriddim => info.nVoxels = GriddimProduct /\ out.ret = "OK"

\* C9 amended: as stated, but with three positive dimensions Init succeeds only
\* when the build does not refuse the run (an MPI build run on more than one
\* process, or a CUDA build asked for doorder together with skipE); a refused
\* run ends in the error as well, before any vector or dataset exists.
C9_GriddimAndBuildDecideInit ==
  phase # "new" =>
    /\ (BadGriddim \/ RefusedBuild) =>
         /\ out.ret = "ERR" /\ out.reported /\ phase = "error"
         /\ centersAndRotations = << >> /\ dTS = << >>
    /\ (~BadGriddim /\ ~RefusedBuild) =>
         /\ out.ret = "OK" /\ phase = "initialized"
         /\ info.nVoxels = GriddimProduct
         /\ info.dimensions = << NextInteger(args.list, 1), NextInteger(args.list, 2),
                                 NextInteger(args.list, 3) >>
         /\ DOMAIN centersAndRotations = 0..(GriddimProduct - 1)

\* C9 witness: Init has refused the griddim 2 0 1 in a build that refuses nothing
C9_Witness ==
  /\ phase = "error"
  /\ args.list.griddim /\ args.list.dims = << 2, 0, 1 >>
  /\ ~RefusedBuild
  /\ out.ret = "ERR"

(***************************************************************************)
(* Properties of the FEBISS test of the post-processing, checked in the    *)
(* accumulation specification.                                             *)
(***************************************************************************)
\* FEBISS was asked for and the solvent is not water
FebissWithoutWater ==
  info.febiss /\ (info.centerAtom # "O" \/ Cardinality(SolventElems(top)) # 2)

\* C10: when FEBISS is asked for and the solvent is not water (the head
\* element is not O, or the solvent has not exactly two elements), a
\* post-processing that gets through its entropy pass reports the error,
\* builds no shells, places no water, and writes the per voxel report.
C10_NoWaterNoPlacement ==
  (phase \in {"printed", "crashed"} /\ info.nFrames > 0 /\ out.g # << >>
     /\ FebissWithoutWater) =>
    /\ phase = "printed"
    /\ out.febissError
    /\ out.shells = << >>
    /\ out.waters = << >>
    /\ out.report

\* C10 witness: the post-processing of a run on the O, N, H solvent with
\* FEBISS asked for has written its report and reported the error
C10_Witness ==
  /\ phase = "printed"
  /\ top = << Hydroxylamine >>
  /\ info.febiss
  /\ out.febissError /\ out.report

(***************************************************************************)
(* The parallel accumulation specification: the molecule loop of DoAction  *)
(* in the build with OpenMP and CUDA (lines 720-723), two solvent          *)
(* molecules of one frame handled by two threads.  thr is                  *)
(*   [lock, w]: the thread inside "omp critical" (0 for none) and per      *)
(*   thread [pc, in, local]: the number of the operation it is at, whether *)
(*   it is inside that operation, and the list it has read.                *)
(* An operation is [k, what, i]: k is "critical" for a write inside an     *)
(* omp critical block and "bare" for a write outside of any.               *)
(***************************************************************************)
Workers == {1, 2}

\* the writes to shared state one thread makes for its molecule, in program
\* order: bin (1622-1633), calcDipole (1665-1673), the other atoms (772-789),
\* calcHVectors (583, 591; only with febiss), the sample (818-825), order
\* (877-884), neighbour (886-893), Eww and Esw (899-911)
ompProgram ==
  << [k |-> "critical", what |-> "bin", i |-> 1],
     [k |-> "critical", what |-> "dipole", i |-> 1],
     [k |-> "critical", what |-> "atom", i |-> 2],
     [k |-> "critical", what |-> "atom", i |-> 3] >>
  \o (IF info.febiss
      THEN << [k |-> "bare", what |-> "hVectors", i |-> 1],
              [k |-> "bare", what |-> "hVectors", i |-> 2] >>
      ELSE << >>)
  \o << [k |-> "critical", what |-> "sample", i |-> 1],
        [k |-> "critical", what |-> "order", i |-> 1],
        [k |-> "critical", what |-> "neighbour", i |-> 1],
        [k |-> "critical", what |-> "energy", i |-> 1] >>

ompDone(t) == thr.w[t].pc > Len(ompProgram)
ompOp(t) == ompProgram[thr.w[t].pc]

\* the voxel of the molecule of thread t (all of its atoms lie in the grid)
ompVoxel(t) == BinIndex(Fine(lastFrame[t].pos[1]))

\* the body of the critical block of operation op of thread t
ompCriticalBody(op, t) ==
  LET m == lastFrame[t]
      voxel == ompVoxel(t)
      acc == Accumulators
  IN IF op.what = "bin"
     THEN [acc EXCEPT !.population = Bump(@, voxel, 1),
                      !.resultV[info.centerAtom] = Bump(@, voxel, 1)]
     ELSE IF op.what = "dipole" THEN calcDipole(acc, top[t], m, voxel)
     ELSE IF op.what = "atom"
     THEN [acc EXCEPT !.resultV[top[t].elems[op.i]] = Bump(@, BinIndex(Fine(m.pos[op.i])), 1)]
     ELSE IF op.what = "sample"
     THEN [acc EXCEPT !.cr[voxel] =
             Append(@, [pos |-> Fine(m.pos[1]), quat |-> calcQuaternion(top[t], m, 0),
                        frame |-> info.nFrames])]
     ELSE IF op.what = "order" THEN [acc EXCEPT !.energy.order = Bump(@, voxel, 1)]
     ELSE IF op.what = "neighbour" THEN [acc EXCEPT !.energy.neighbour = Bump(@, voxel, 1)]
     ELSE [acc EXCEPT !.energy.Eww = Bump(@, voxel, Len(top[t].elems)),
                      !.energy.Esw = Bump(@, voxel, Len(top[t].elems))]

ParPoints == { << 0, 0, 0 >>, << 2, 0, 0 >> }
ParShapes == [n \in {3} |-> { [off |-> << << 0, 0, 0 >>, << 1, 0, 0 >>, << 0, 1, 0 >> >>, quat |-> 0] }]

InitPar ==
  /\ \E f \in BOOLEAN :
       AfterSetup([SetupInfo(<< Water, Water >>, << 2, 1, 1 >>, 2, FALSE, f, TRUE)
                     EXCEPT !.nFrames = 1], << Water, Water >>)
  /\ args = << >> /\ six = << >> /\ lay = << >> /\ feb = << >>
  /\ thr = [lock |-> 0, frame |-> << >>,
            w |-> [t \in Workers |-> [pc |-> 1, in |-> FALSE, local |-> << >>]]]

\* the frame handed to DoAction: thread t takes molecule t
ompStart ==
  /\ thr.frame = << >>
  /\ \E frame \in FrameInputs(ParPoints, ParShapes) :
       /\ lastFrame' = frame
       /\ thr' = [thr EXCEPT !.frame = frame]
  /\ UNCHANGED << phase, info, top, population, dipole, resultV, energy,
                  centersAndRotations, hVectors, anchored, before, PostVars,
                  args, six, lay, feb >>

\* "#pragma omp critical {": the thread waits until no thread is inside
ompCriticalEnter(t) ==
  /\ thr.frame # << >> /\ ~ompDone(t)
  /\ ompOp(t).k = "critical" /\ ~thr.w[t].in
  /\ thr.lock = 0
  /\ thr' = [thr EXCEPT !.lock = t, !.w[t].in = TRUE]
  /\ UNCHANGED << phase, info, top, population, dipole, resultV, energy,
                  centersAndRotations, hVectors, lastFrame, anchored, before,
                  PostVars, args, six, lay, feb >>

\* the body of the critical block and its closing brace
ompCriticalLeave(t) ==
  /\ thr.frame # << >> /\ ~ompDone(t)
  /\ ompOp(t).k = "critical" /\ thr.w[t].in
  /\ LET acc == ompCriticalBody(ompOp(t), t)
     IN /\ population' = acc.population
        /\ dipole' = acc.dipole
        /\ resultV' = acc.resultV
        /\ energy' = acc.energy
        /\ centersAndRotations' = acc.cr
  /\ thr' = [thr EXCEPT !.lock = 0, !.w[t].in = FALSE, !.w[t].pc = @ + 1]
  /\ UNCHANGED << phase, info, top, hVectors, lastFrame, anchored, before,
                  PostVars, args, six, lay, feb >>

\* hVectors_.at(voxel).push_back, first half: the thread reads the list
pushBackRead(t) ==
  /\ thr.frame # << >> /\ ~ompDone(t)
  /\ ompOp(t).k = "bare" /\ ~thr.w[t].in
  /\ thr' = [thr EXCEPT !.w[t].in = TRUE, !.w[t].local = hVectors[ompVoxel(t)]]
  /\ UNCHANGED << phase, info, top, population, dipole, resultV, energy,
                  centersAndRotations, hVectors, lastFrame, anchored, before,
                  PostVars, args, six, lay, feb >>

\* push_back, second half: the thread writes the list it read, one entry longer
pushBackWrite(t) ==
  /\ thr.frame # << >> /\ ~ompDone(t)
  /\ ompOp(t).k = "bare" /\ thr.w[t].in
  /\ hVectors' = [hVectors EXCEPT ![ompVoxel(t)] =
                    Append(thr.w[t].local, calcHVectors(top[t], lastFrame[t], 0)[ompOp(t).i])]
  /\ thr' = [thr EXCEPT !.w[t].in = FALSE, !.w[t].local = << >>, !.w[t].pc = @ + 1]
  /\ UNCHANGED << phase, info, top, population, dipole, resultV, energy,
                  centersAndRotations, lastFrame, anchored, before,
                  PostVars, args, six, lay, feb >>

NextPar ==
  \/ ompStart
  \/ \E t \in Workers : ompCriticalEnter(t)
  \/ \E t \in Workers : ompCriticalLeave(t)
  \/ \E t \in Workers : pushBackRead(t)
  \/ \E t \in Workers : pushBackWrite(t)

SpecPar == InitPar /\ [][NextPar]_vars

\* two threads are inside a write to the same structure
ompWritingTogether ==
  \E t, u \in Workers :
    /\ t # u /\ thr.frame # << >>
    /\ ~ompDone(t) /\ ~ompDone(u)
    /\ thr.w[t].in /\ thr.w[u].in
    /\ ompOp(t).what = ompOp(u).what
    /\ ompVoxel(t) = ompVoxel(u)

\* the molecules of the frame that lie in voxel v
ompMolecules(v) == { t \in Workers : ompVoxel(t) = v }

\* C11: in the parallel molecule loop no two threads are ever inside a write
\* to the same shared structure, and when both threads are through, every
\* voxel holds every update: population, the head element density, the
\* samples, two relative hydrogen vectors per molecule (with febiss), order,
\* neighbour, Eww and Esw.
C11_SharedWritesExclusive ==
  /\ ~ompWritingTogether
  /\ (thr.frame # << >> /\ \A t \in Workers : ompDone(t)) =>
       \A v \in Voxels :
         LET n == Cardinality(ompMolecules(v))
         IN /\ population[v] = n
            /\ resultV["O"][v] = n
            /\ resultV["H"][v] = 2 * n
            /\ Len(centersAndRotations[v]) = n
            /\ Len(hVectors[v]) = IF info.febiss THEN 2 * n ELSE 0
            /\ energy.order[v] = n
            /\ energy.neighbour[v] = n
            /\ energy.Eww[v] = 3 * n
            /\ energy.Esw[v] = 3 * n

(***************************************************************************)
(* The parallel entropy specification: the voxel loop of Print under       *)
(* "#pragma omp parallel for" (line 1039), the two interior voxels 13 and  *)
(* 22 of a 4 x 3 x 3 grid handled by two threads.  The store holds one     *)
(* water sample per frame.  thr.w[t] is [voxel, prog, pc, in, local]: the  *)
(* increments of shared counters the thread makes, in program order, the   *)
(* one it is at, whether it has read the counter, and the value it read.   *)
(***************************************************************************)
\* the increments of updateNNFailureCount (lines 1521-1527) for the searches
\* logged in log, from entry k on
RECURSIVE counterProgram(_, _)
counterProgram(log, k) ==
  IF k > Len(log) THEN << >>
  ELSE LET save_dist == (info.voxelSize * info.scale) * (info.voxelSize * info.scale)
       IN (IF log[k].NNd > save_dist
           THEN << [what |-> "nearestNeighborTransFailures", by |-> 1] >> ELSE << >>)
          \o (IF log[k].NNs > save_dist
              THEN << [what |-> "nearestNeighborSixFailures", by |-> 1] >> ELSE << >>)
          \o << [what |-> "nearestNeighborTotal", by |-> 1] >>
          \o counterProgram(log, k + 1)

\* the increments one pass of the voxel loop makes, given what calcTransEntropy
\* hands back: those of updateNNFailureCount, then line 1079
voxelProgram(ret) ==
  counterProgram(ret.log, 1) \o << [what |-> "concerningNeighbors", by |-> ret.concerning] >>

\* the sample store after the frames xs: frame f holds one water whose oxygen
\* is at << xs[f][1], 3, 3 >> with the orientation xs[f][2]
storeAfter(xs, v) ==
  LET mine == SelectSeq([f \in 1..Len(xs) |-> f],
                        LAMBDA f : BinIndex(<< xs[f][1], 3, 3 >>) = v)
  IN [k \in 1..Len(mine) |->
        [pos |-> << xs[mine[k]][1], 3, 3 >>, quat |-> xs[mine[k]][2], frame |-> mine[k]]]

InitCounters ==
  /\ phase = "run"
  /\ top = << Water >>
  /\ \E n \in 2..MaxFrames : \E xs \in [1..n -> {3, 4, 5} \X {0, 1}] :
       /\ info = [SetupInfo(<< Water >>, << 4, 3, 3 >>, 2, FALSE, FALSE, TRUE)
                    EXCEPT !.nFrames = n]
       /\ centersAndRotations = [v \in 0..35 |-> storeAfter(xs, v)]
       /\ population = [v \in 0..35 |-> Len(storeAfter(xs, v))]
       /\ resultV = [e \in {"O", "H"} |->
                       [v \in 0..35 |-> (IF e = "H" THEN 2 ELSE 1) * Len(storeAfter(xs, v))]]
  /\ dipole = [v \in 0..35 |-> << 0, 0, 0 >>]
  /\ energy = [d \in {"order", "neighbour", "Eww", "Esw"} |-> [v \in 0..35 |-> 0]]
  /\ hVectors = [v \in 0..35 |-> << >>]
  /\ lastFrame = << >> /\ anchored = 0 /\ before = << >>
  /\ dTS = [v \in 0..35 |-> [orient |-> Zero, trans |-> Zero, six |-> Zero]]
  /\ nn = [c |-> NoCounters, concerning |-> 0, log |-> << >>]
  /\ out = NoOutput
  /\ args = << >> /\ six = << >> /\ lay = << >> /\ feb = << >>
  /\ thr = [lock |-> 0, started |-> FALSE, w |-> << >>]

\* the threads enter the loop: thread 1 takes voxel 13, thread 2 voxel 22.
\* Only stores whose searches all come back without the fatal error are run.
ompEntropyStart ==
  /\ ~thr.started
  /\ \E gap \in UninitGaps :
     LET r13 == calcTransEntropy(13, NoCounters, << >>, gap)
         r22 == calcTransEntropy(22, NoCounters, << >>, gap)
     IN /\ r13.status = "ok" /\ r22.status = "ok"
        /\ thr' = [lock |-> 0, started |-> TRUE,
                   w |-> << [voxel |-> 13, prog |-> voxelProgram(r13), pc |-> 1,
                             in |-> FALSE, local |-> 0],
                            [voxel |-> 22, prog |-> voxelProgram(r22), pc |-> 1,
                             in |-> FALSE, local |-> 0] >>]
  /\ UNCHANGED << phase, info, top, population, dipole, resultV, energy,
                  centersAndRotations, hVectors, lastFrame, anchored, before,
                  PostVars, args, six, lay, feb >>

counterOf(what) ==
  IF what = "concerningNeighbors" THEN nn.concerning ELSE nn.c[what]

\* "++counter" / "counter += n", first half: the thread reads the counter
counterRead(t) ==
  /\ thr.started /\ thr.w[t].pc <= Len(thr.w[t].prog)
  /\ ~thr.w[t].in
  /\ thr' = [thr EXCEPT !.w[t].in = TRUE,
                        !.w[t].local = counterOf(thr.w[t].prog[thr.w[t].pc].what)]
  /\ UNCHANGED << phase, info, top, population, dipole, resultV, energy,
                  centersAndRotations, hVectors, lastFrame, anchored, before,
                  PostVars, args, six, lay, feb >>

\* second half: the thread writes the value it read plus the increment
counterWrite(t) ==
  /\ thr.started /\ thr.w[t].pc <= Len(thr.w[t].prog)
  /\ thr.w[t].in
  /\ LET op == thr.w[t].prog[thr.w[t].pc]
     IN nn' = IF op.what = "concerningNeighbors"
              THEN [nn EXCEPT !.concerning = thr.w[t].local + op.by]
              ELSE [nn EXCEPT !.c[op.what] = thr.w[t].local + op.by]
  /\ thr' = [thr EXCEPT !.w[t].in = FALSE, !.w[t].pc = @ + 1]
  /\ UNCHANGED << phase, info, top, population, dipole, resultV, energy,
                  centersAndRotations, hVectors, lastFrame, anchored, before,
                  dTS, out, args, six, lay, feb >>

NextCounters ==
  \/ ompEntropyStart
  \/ \E t \in Workers : counterRead(t)
  \/ \E t \in Workers : counterWrite(t)

SpecCounters == InitCounters /\ [][NextCounters]_vars

\* both threads are between the read and the write of the same counter
countersTogether ==
  /\ thr.started
  /\ \E t, u \in Workers :
       /\ t # u /\ thr.w[t].in /\ thr.w[u].in
       /\ thr.w[t].prog[thr.w[t].pc].what = thr.w[u].prog[thr.w[u].pc].what

countersDone == thr.started /\ \A t \in Workers : thr.w[t].pc > Len(thr.w[t].prog)

\* the increments of kind what in the programs of both threads
RECURSIVE sumOf(_, _, _)
sumOf(prog, what, k) ==
  IF k > Len(prog) THEN 0
  ELSE (IF prog[k].what = what THEN prog[k].by ELSE 0) + sumOf(prog, what, k + 1)

\* C12: in the parallel voxel loop no two threads are ever between the read
\* and the write of the same shared counter, and when both threads are
\* through, nearestNeighborTotal is the number of samples searched and every
\* counter holds the sum of all its increments.
C12_CounterIncrementsExclusive ==
  /\ ~countersTogether
  /\ countersDone =>
       /\ nn.c.nearestNeighborTotal = Len(centersAndRotations[13]) + Len(centersAndRotations[22])
       /\ \A what \in {"nearestNeighborTotal", "nearestNeighborTransFailures",
                       "nearestNeighborSixFailures", "concerningNeighbors"} :
            counterOf(what) = sumOf(thr.w[1].prog, what, 1) + sumOf(thr.w[2].prog, what, 1)

(***************************************************************************)
(* The border specification: one water molecule per frame on grids with    *)
(* and without interior voxels, molecules on the lower and the upper faces.*)
(***************************************************************************)
BorderDims == { << 4, 3, 3 >>, << 3, 3, 3 >>, << 2, 3, 3 >>, << 3, 3, 2 >>, << 3, 1, 3 >> }

BorderPoints == { << 1, 3, 3 >>, << 3, 3, 3 >>, << 5, 3, 3 >>, << 3, 1, 3 >> }

BorderShapes ==
  [n \in {3} |->
    { [off |-> << << 0, 0, 0 >>, << 1, 0, 0 >>, << 0, 1, 0 >> >>, quat |-> q] : q \in {0, 1} }]

InitBorder ==
  /\ \E dims \in BorderDims :
       AfterSetup(SetupInfo(<< Water >>, dims, 2, FALSE, FALSE, TRUE), << Water >>)
  /\ Idle

DoActionBorder == DoActionOn(BorderPoints, BorderShapes, MaxFrames)

NextBorder == DoActionBorder \/ PrintGist

SpecBorder == InitBorder /\ [][NextBorder]_vars

\* a voxel with a coordinate equal to 0 or to count-1 on its axis
OnBorder(v) ==
  \E a \in 1..3 : getVoxelVec(v)[a] = 0 \/ getVoxelVec(v)[a] = info.dimensions[a] - 1

\* the searches logged for voxel v
SearchesOf(v) == { k \in 1..Len(nn.log) : nn.log[k].voxel = v }

\* the samples stored in the voxels off the border
RECURSIVE interiorSamples(_)
interiorSamples(v) ==
  IF v >= info.nVoxels THEN 0
  ELSE (IF OnBorder(v) THEN 0 ELSE Len(centersAndRotations[v])) + interiorSamples(v + 1)

\* C13: voxelIsAtGridBorder is true for exactly the voxels with a coordinate
\* equal to 0 or to count-1 (all voxels when a dimension is <= 2); for such a
\* voxel the translational and six-dimensional outputs are zero, no neighbour
\* search is run and no counter is updated for its samples, coincident
\* samples in it are not fatal, and once the post-processing has completed
\* the voxel holds the orientational entropy of its samples.
C13_BorderVoxelsSkipTrans ==
  /\ \A v \in Voxels : voxelIsAtGridBorder(v) <=> OnBorder(v)
  /\ (\E a \in 1..3 : info.dimensions[a] <= 2) => \A v \in Voxels : voxelIsAtGridBorder(v)
  /\ \A v \in Voxels :
       OnBorder(v) =>
         /\ IsZero(dTS[v].trans) /\ IsZero(dTS[v].six)
         /\ SearchesOf(v) = {}
         /\ (phase = "printed" /\ population[v] >= 2) =>
              dTS[v].orient = Value(orientTerms(v, 1), Len(orientTerms(v, 1)),
                                    Len(orientTerms(v, 1)))
  /\ nn.c.nearestNeighborTotal <= interiorSamples(0)
  /\ (\A v \in Voxels : OnBorder(v)) => phase # "fatal" /\ nn.c = NoCounters

\* C13 witness: the post-processing completed on a grid one of whose
\* dimensions is 2, with two samples of the same position and orientation in
\* the upper border voxel: it got an orientational value and no
\* translational one, and nothing was searched or counted.
C13_Witness ==
  /\ phase = "printed"
  /\ \E a \in 1..3 : info.dimensions[a] = 2
  /\ \E v \in Voxels :
       /\ \E a \in 1..3 : getVoxelVec(v)[a] = info.dimensions[a] - 1 /\ getVoxelVec(v)[a] > 0
       /\ Len(centersAndRotations[v]) >= 2
       /\ centersAndRotations[v][1].pos = centersAndRotations[v][2].pos
       /\ centersAndRotations[v][1].quat = centersAndRotations[v][2].quat
       /\ dTS[v].orient.st = "value"
       /\ IsZero(dTS[v].trans) /\ IsZero(dTS[v].six)
  /\ nn.log = << >> /\ nn.c.nearestNeighborTotal = 0

\* C14: once the voxel loop is through, nearestNeighborTotal has grown by 1
\* for every sample searched, nearestNeighborSixFailures by 1 for every sample
\* whose squared six-dimensional distance exceeds the squared voxel width,
\* nearestNeighborTransFailures likewise for the translational distance, and
\* both failure counters are at most nearestNeighborTotal.
C14_FailuresWithinTotal ==
  countersDone =>
    /\ nn.c.nearestNeighborTransFailures <= nn.c.nearestNeighborTotal
    /\ nn.c.nearestNeighborSixFailures <= nn.c.nearestNeighborTotal
    /\ nn.c.nearestNeighborTotal =
         sumOf(thr.w[1].prog \o thr.w[2].prog, "nearestNeighborTotal", 1)
    /\ nn.c.nearestNeighborSixFailures =
         sumOf(thr.w[1].prog \o thr.w[2].prog, "nearestNeighborSixFailures", 1)
    /\ nn.c.nearestNeighborTransFailures =
         sumOf(thr.w[1].prog \o thr.w[2].prog, "nearestNeighborTransFailures", 1)

\* C15: the neighbour search comes back for every sample of every interior
\* voxel, also when the grid holds no other oriented sample: the
\* post-processing never stays in a search.
C15_SearchTerminates == phase # "hung"

\* C16: after every processed frame every voxel stores as many samples as its
\* population, and the samples of the voxel carry the indices of the frames
\* they were taken in, in the order of the frames.
C16_SamplesMatchPopulation ==
  phase = "run" =>
    \A v \in Voxels :
      /\ Len(centersAndRotations[v]) = population[v]
      /\ \A k \in 1..Len(centersAndRotations[v]) :
           /\ centersAndRotations[v][k].frame \in 1..info.nFrames
           /\ k > 1 => centersAndRotations[v][k - 1].frame <= centersAndRotations[v][k].frame

\* the samples of the whole grid other than sample hi of voxel home
OtherSamples(home, hi) ==
  { << v, k >> \in Voxels \X (1..MaxFrames + 1) :
      k <= Len(centersAndRotations[v]) /\ << v, k >> # << home, hi >> }

\* the oriented samples of voxel v
OrientedIn(v) ==
  { k \in 1..Len(centersAndRotations[v]) : centersAndRotations[v][k].quat # NoQuat }

\* C17: for every sample of an interior voxel that was searched, oriented or
\* not, the NNd handed back is the smallest squared positional distance to
\* any other sample of the grid, whatever the orientations; and the
\* six-dimensional sum of a voxel has no more terms than the voxel has
\* oriented samples, its count being the number of oriented samples.
C17_NearestPositionalNeighbour ==
  /\ \A e \in 1..Len(nn.log) :
       LET home == nn.log[e].voxel
           hi == nn.log[e].idx
           quat == centersAndRotations[home][hi]
       IN OtherSamples(home, hi) # {} =>
            /\ \A o \in OtherSamples(home, hi) :
                 nn.log[e].NNd <= Magnitude2(VSub(quat.pos, centersAndRotations[o[1]][o[2]].pos))
            /\ \E o \in OtherSamples(home, hi) :
                 nn.log[e].NNd = Magnitude2(VSub(quat.pos, centersAndRotations[o[1]][o[2]].pos))
  /\ \A v \in Voxels :
       dTS[v].six.st = "value" =>
         /\ Len(dTS[v].six.terms) <= Cardinality(OrientedIn(v))
         /\ dTS[v].six.n = Cardinality(OrientedIn(v))

\* C18: for every search that found a six-dimensional neighbour, the frame
\* gap handed back is |frame(sample) - frame(n)| for a neighbour n whose
\* squared six-dimensional distance is the NNs handed back; and the
\* concerning-neighbour counter is the number of searches whose gap is <= 3.
C18_FrameGapOfNearest ==
  /\ \A e \in 1..Len(nn.log) :
       LET home == nn.log[e].voxel
           hi == nn.log[e].idx
           quat == centersAndRotations[home][hi]
       IN nn.log[e].NNs < HUGE =>
            \E o \in OtherOriented(home, hi) :
              /\ nn.log[e].NNs = SixDist2(quat, centersAndRotations[o[1]][o[2]])
              /\ nn.log[e].dist = Abs(quat.frame - centersAndRotations[o[1]][o[2]].frame)
  /\ nn.concerning = Cardinality({ e \in 1..Len(nn.log) : Abs(nn.log[e].dist) <= 3 })

\* C19: after every frame of the pairwise path, the order field of a voxel
\* has received one contribution per sample stored for the voxel, and its
\* Eww and Esw fields one contribution per atom of each of these molecules
\* (the summed energy of the molecule, once).
C19_OneContributionPerMolecule ==
  phase = "run" =>
    \A v \in Voxels :
      /\ energy.order[v] = Len(centersAndRotations[v])
      /\ energy.Eww[v] = Len(centersAndRotations[v]) * Len(top[1].elems)
      /\ energy.Esw[v] = Len(centersAndRotations[v]) * Len(top[1].elems)

(***************************************************************************)
(* The setup specification: Setup on topologies of one or two solvent      *)
(* molecules of up to MaxMolAtoms atoms each, the element names drawn from *)
(* the three recognized ones and two others.                               *)
(***************************************************************************)
SetupElems == {"S", "C", "O", "H", "Na"}

SetupMolecules ==
  UNION { { [elems |-> e, charge |-> [i \in 1..n |-> 0], mass |-> [i \in 1..n |-> 1]] :
              e \in [1..n -> SetupElems] } : n \in 1..MaxMolAtoms }

InitSetup ==
  /\ phase = "initialized"
  /\ \E n \in 1..2 : top \in [1..n -> SetupMolecules]
  /\ info = [centerAtom |-> "", centerIdx |-> -1, numberSolvent |-> 0]
  /\ out = NoOutput
  /\ centersAndRotations = << >> /\ hVectors = << >> /\ dTS = << >>
  /\ population = << >> /\ dipole = << >> /\ resultV = << >>
  /\ energy = << >> /\ lastFrame = << >> /\ anchored = 0 /\ before = << >>
  /\ nn = << >> /\ args = << >> /\ six = << >> /\ lay = << >> /\ feb = << >> /\ thr = << >>

\* Action_GIGist::Setup : setMoleculeInformation hands every molecule to
\* setAtomInformation, prepDensityGrids allocates one grid per element name
GistSetup ==
  /\ phase = "initialized"
  /\ LET c == setAtomInformation(top, AtomList(top, 1), << info.centerAtom, info.centerIdx >>)
     IN info' = [info EXCEPT !.centerAtom = c[1], !.centerIdx = c[2],
                             !.numberSolvent = Len(top)]
  /\ resultV' = [e \in SolventElems(top) |-> << >>]
  /\ phase' = "run"
  /\ UNCHANGED << top, population, dipole, energy, centersAndRotations, hVectors,
                  lastFrame, anchored, before, PostVars, OtherVars >>

NextSetup == GistSetup

SpecSetup == InitSetup /\ [][NextSetup]_vars

\* the recognized elements the solvent holds
Recognized == SolventElems(top) \cap {"S", "C", "O"}

\* the in-molecule index of the first atom of element e in topology order
FirstIndexOf(e) ==
  LET all == AtomList(top, 1)
      k == CHOOSE k \in 1..Len(all) :
             /\ top[all[k][1]].elems[all[k][2]] = e
             /\ \A j \in 1..(k - 1) : top[all[j][1]].elems[all[j][2]] # e
  IN all[k][2] - 1

\* C20: after Setup the head element is S when the solvent holds an S, else C
\* when it holds a C, else O when it holds an O, and centerIdx is the
\* in-molecule index of the first atom of that element; when the solvent
\* holds none of the three, no element is the head.
C20_HeadIsPreferredElement ==
  phase = "run" =>
    /\ Recognized # {} =>
         /\ info.centerAtom = (IF "S" \in Recognized THEN "S"
                               ELSE IF "C" \in Recognized THEN "C" ELSE "O")
         /\ info.centerIdx = FirstIndexOf(info.centerAtom)
    /\ Recognized = {} => info.centerAtom = "" /\ info.centerIdx = -1

\* all voxels in index order
AllVoxels == [i \in 1..info.nVoxels |-> i - 1]

\* the relative density the last placement iteration removed from the grid
Removed == RSub(SumDensity(feb.last.relPopBefore, AllVoxels), SumDensity(feb.relPop, AllVoxels))

\* C21: in every placement iteration whose accumulated density reached the
\* density of one bulk water, the density subtractWater removed from the grid
\* is exactly that of one bulk water (the accumulated density minus the
\* overshoot).
C21_OneWaterIsRemoved ==
  (feb.placed > 0 /\ ~RLess(feb.last.densityValue, ROne)) =>
    /\ Removed = ROne
    /\ Removed = RSub(feb.last.densityValue, RSub(feb.last.densityValue, ROne))

\* C22: every voxel the last placement iteration touched when applying one
\* of its shells 0..shellNum at the selected voxel lies at the squared centre
\* distance of that shell from the selected voxel.
C22_ShellTargetsAtShellDistance ==
  feb.placed > 0 =>
    \A i \in 0..feb.last.shellNum :
      \A k \in 1..Len(ShellTargets(feb.last.index, i)) :
        VoxelDist2(ShellTargets(feb.last.index, i)[k], feb.last.index)
          = shellcontainerKeys[i + 1]

(***************************************************************************)
(* The hydrogen specification: the histogram of the relative H vectors of  *)
(* the selected voxel and the two maxima placeFebissWaters takes from it.  *)
(* The histogram of the source has 21 bins of 0.1 A per direction; the     *)
(* model keeps its shape with hDim bins of 0.5 A, so that the half         *)
(* Angstrom around hydrogen 1 is one bin.  H vectors are in units of a     *)
(* quarter Angstrom, angles in hundredths of a degree.                     *)
(***************************************************************************)
hDim == 5                  \* int hDim = 21
destroyDistanceSq == 1     \* 0.5 * 0.5 A^2, in squared bin widths
idealWaterAngle == 10457   \* febiss_angle, default 104.57 degrees
NaNAngle == -1             \* acos of 0 / 0: every comparison with it is false
MaxHVectors == 3           \* H vectors stored for the selected voxel

\* the centre bin: the "10" of the source
hCenter == (hDim - 1) \div 2

\* std::round of half a quarter-Angstrom count: halves go away from zero
roundBin(h) == IF h >= 0 THEN (h + 1) \div 2 ELSE -((1 - h) \div 2)

\* lines 1945-1955: scale, round, shift to the centre, clamp into the grid
binH(h) ==
  LET tmpBin == roundBin(h) + hCenter
  IN IF tmpBin < 0 THEN 0 ELSE IF tmpBin > hDim - 1 THEN hDim - 1 ELSE tmpBin

\* the bins in the order of the loops over i, j, k
HPositions ==
  [n \in 1..(hDim * hDim * hDim) |->
     << (n - 1) \div (hDim * hDim), ((n - 1) \div hDim) % hDim, (n - 1) % hDim >>]

\* setGridToZero followed by the binning of lines 1942-1964
binHVectors(hv) ==
  [p \in { HPositions[n] : n \in DOMAIN HPositions } |->
     Cardinality({ j \in DOMAIN hv : << binH(hv[j][1]), binH(hv[j][2]), binH(hv[j][3]) >> = p })]

\* coordsFromHGridPos, in bin widths
coordsFromHGridPos(pos) == << pos[1] - hCenter, pos[2] - hCenter, pos[3] - hCenter >>

Dot3(a, b) == a[1] * b[1] + a[2] * b[2] + a[3] * b[3]

\* calcDistSqBetweenHGridPos, in squared bin widths
calcDistSqBetweenHGridPos(a, b) ==
  Dot3(VSub(coordsFromHGridPos(a), coordsFromHGridPos(b)),
       VSub(coordsFromHGridPos(a), coordsFromHGridPos(b)))

\* 180 * acos(d / sqrt(p)) / PI in hundredths of a degree, for every pair of
\* a non-negative dot product d and a product p of squared lengths of the histogram
acosEntries ==
  {
    <<0,1,9000>>, <<0,2,9000>>, <<0,4,9000>>, <<0,5,9000>>, <<0,6,9000>>, <<0,8,9000>>,
    <<0,12,9000>>, <<0,16,9000>>, <<0,18,9000>>, <<0,20,9000>>, <<0,24,9000>>, <<0,25,9000>>,
    <<0,30,9000>>, <<0,32,9000>>, <<0,45,9000>>, <<0,48,9000>>, <<0,64,9000>>, <<0,72,9000>>,
    <<0,81,9000>>, <<0,96,9000>>, <<1,1,0>>, <<1,2,4500>>, <<1,3,5474>>, <<1,4,6000>>,
    <<1,5,6343>>, <<1,6,6591>>, <<1,9,7053>>, <<1,10,7157>>, <<1,12,7322>>, <<1,15,7504>>,
    <<1,18,7637>>, <<1,25,7846>>, <<1,27,7890>>, <<1,30,7948>>, <<1,36,8041>>, <<1,54,8218>>,
    <<1,81,8362>>, <<2,4,0>>, <<2,5,2657>>, <<2,6,3526>>, <<2,8,4500>>, <<2,9,4819>>,
    <<2,10,5077>>, <<2,12,5474>>, <<2,16,6000>>, <<2,18,6187>>, <<2,20,6343>>, <<2,24,6591>>,
    <<2,25,6642>>, <<2,36,7053>>, <<2,40,7157>>, <<2,45,7265>>, <<2,48,7322>>, <<2,54,7421>>,
    <<2,60,7504>>, <<2,72,7637>>, <<2,108,7890>>, <<3,9,0>>, <<3,10,1843>>, <<3,12,3000>>,
    <<3,15,3923>>, <<3,18,4500>>, <<3,25,5313>>, <<3,27,5474>>, <<3,30,5679>>, <<3,36,6000>>,
    <<3,45,6343>>, <<3,54,6591>>, <<4,16,0>>, <<4,18,1947>>, <<4,20,2657>>, <<4,24,3526>>,
    <<4,25,3687>>, <<4,30,4309>>, <<4,32,4500>>, <<4,36,4819>>, <<4,40,5077>>, <<4,45,5340>>,
    <<4,48,5474>>, <<4,64,6000>>, <<4,72,6187>>, <<4,81,6361>>, <<4,144,7053>>, <<5,25,0>>,
    <<5,27,1579>>, <<5,30,2409>>, <<5,36,3356>>, <<5,45,4181>>, <<5,54,4712>>, <<6,36,0>>,
    <<6,40,1843>>, <<6,45,2657>>, <<6,48,3000>>, <<6,54,3526>>, <<6,60,3923>>, <<6,72,4500>>,
    <<6,108,5474>>, <<7,54,1772>>, <<7,81,3894>>, <<8,64,0>>, <<8,72,1947>>, <<8,81,2727>>,
    <<8,96,3526>>, <<9,81,0>>, <<10,108,1579>>, <<12,144,0>>
  }

acosTable ==
  [key \in { << e[1], e[2] >> : e \in acosEntries } |->
     (CHOOSE e \in acosEntries : << e[1], e[2] >> = key)[3]]

\* calcAngleBetweenHGridPos
calcAngleBetweenHGridPos(a, b) ==
  LET dotProduct == Dot3(coordsFromHGridPos(a), coordsFromHGridPos(b))
      lengths == Dot3(coordsFromHGridPos(a), coordsFromHGridPos(a))
                   * Dot3(coordsFromHGridPos(b), coordsFromHGridPos(b))
  IN IF lengths = 0 THEN NaNAngle
     ELSE IF dotProduct >= 0 THEN acosTable[<< dotProduct, lengths >>]
     ELSE 18000 - acosTable[<< -dotProduct, lengths >>]

\* idealWaterAngle_ - 5 < angle && angle < idealWaterAngle_ + 5
angleInWindow(angle) ==
  /\ angle # NaNAngle
  /\ idealWaterAngle - 500 < angle
  /\ angle < idealWaterAngle + 500

\* fabs(newAngle - idealWaterAngle_) < fabs(angle - idealWaterAngle_)
angleCloser(newAngle, angle) ==
  /\ newAngle # NaNAngle
  /\ angle # NaNAngle
  /\ Abs(newAngle - idealWaterAngle) < Abs(angle - idealWaterAngle)

\* std::make_tuple(0, 0, 0, 0)
NoMaximum == [count |-> 0, pos |-> << 0, 0, 0 >>]

\* the body of the three loops of findHMaximum for the bin pos
maximumStep(grid, firstMaximum, maximum, pos) ==
  LET considerOtherMaximum == firstMaximum.count # 0
      possibleMaximum == [count |-> grid[pos], pos |-> pos]
  IN IF grid[pos] > maximum.count
     THEN IF considerOtherMaximum
          THEN IF angleInWindow(calcAngleBetweenHGridPos(pos, firstMaximum.pos))
               THEN possibleMaximum ELSE maximum
          ELSE possibleMaximum
     ELSE IF considerOtherMaximum /\ grid[pos] = maximum.count
     THEN IF angleCloser(calcAngleBetweenHGridPos(pos, firstMaximum.pos),
                         calcAngleBetweenHGridPos(maximum.pos, firstMaximum.pos))
          THEN possibleMaximum ELSE maximum
     ELSE maximum

\* the loops of findHMaximum over the bins lo..hi of the scan order
RECURSIVE scanHGrid(_, _, _, _, _)
\* the scan goes on from lo with the maximum found so far
continueScan(grid, firstMaximum, maximum, lo, hi) ==
  IF maximum.count >= 0 /\ lo <= hi
  THEN scanHGrid(grid, firstMaximum, maximum, lo, hi) ELSE maximum
scanHGrid(grid, firstMaximum, maximum, lo, hi) ==
  IF lo = hi THEN maximumStep(grid, firstMaximum, maximum, HPositions[lo])
  ELSE continueScan(grid, firstMaximum,
                    scanHGrid(grid, firstMaximum, maximum, lo, (lo + hi) \div 2),
                    (lo + hi) \div 2 + 1, hi)

\* findHMaximum(grid, dim, firstMaximum)
findHMaximum(grid, firstMaximum) ==
  scanHGrid(grid, firstMaximum, NoMaximum, 1, Len(HPositions))

\* deleteAroundFirstH
deleteAroundFirstH(grid, maximum) ==
  [p \in DOMAIN grid |->
     IF calcDistSqBetweenHGridPos(p, maximum.pos) <= destroyDistanceSq THEN 0 ELSE grid[p]]

\* lines 1937-1970 for the H vectors of the selected voxel
hydrogensAfterFirst(hGrid, maximum1) ==
  [hGrid |-> hGrid, maximum1 |-> maximum1,
   deleted |-> deleteAroundFirstH(hGrid, maximum1),
   maximum2 |-> findHMaximum(deleteAroundFirstH(hGrid, maximum1), maximum1)]

placeHydrogens(hv) ==
  hydrogensAfterFirst(binHVectors(hv), findHMaximum(binHVectors(hv), NoMaximum))

\* the H vectors of the model: along +x (also beyond the grid, and one bin
\* off), along -x, at the tetrahedral angle to +x, and the null vector
HVecs == { << 4, 0, 0 >>, << 6, 0, 0 >>, << 3, 1, 0 >>, << -4, 0, 0 >>,
           << -2, 4, 4 >>, << 0, 0, 0 >> }

HVecLists == UNION { [1..n -> HVecs] : n \in 0..MaxHVectors }

\* voxel 3 holds one bulk water and the H vectors, every other voxel nothing
InitHist ==
  /\ phase = "run"
  /\ top = << Water >>
  /\ info = SetupInfo(<< Water >>, << 3, 2, 1 >>, 2, FALSE, TRUE, TRUE)
  /\ population = [v \in 0..5 |-> 0]
  /\ dipole = [v \in 0..5 |-> << 0, 0, 0 >>]
  /\ resultV = [e \in {"O", "H"} |-> [v \in 0..5 |-> 0]]
  /\ energy = [d \in {"order", "neighbour", "Eww", "Esw"} |-> [v \in 0..5 |-> 0]]
  /\ centersAndRotations = [v \in 0..5 |-> << >>]
  /\ \E hv \in HVecLists : hVectors = [v \in 0..5 |-> IF v = 3 THEN hv ELSE << >>]
  /\ lastFrame = << >> /\ anchored = 0 /\ before = << >>
  /\ dTS = [v \in 0..5 |-> [orient |-> Zero, trans |-> Zero, six |-> Zero]]
  /\ nn = [c |-> NoCounters, concerning |-> 0, log |-> << >>]
  /\ out = NoOutput
  /\ feb = [relPop |-> [v \in 0..5 |-> IF v = 3 THEN ROne ELSE RZero],
            placed |-> 0, last |-> << >>, h |-> << >>]
  /\ args = << >> /\ six = << >> /\ lay = << >> /\ thr = << >>

\* one iteration of the loop of lines 1920-1991, hydrogens included
PlaceWaterAndHydrogens ==
  /\ feb.placed < MaxWaters
  /\ LET it == placeOne(feb.relPop)
     IN feb' = [relPop |-> it.relPop, placed |-> feb.placed + 1, last |-> it,
                h |-> placeHydrogens(hVectors[it.index])]
  /\ UNCHANGED << phase, info, top, population, dipole, resultV, energy,
                  centersAndRotations, hVectors, lastFrame, anchored, before,
                  PostVars, args, six, lay, thr >>

NextHist == PlaceWaterAndHydrogens

SpecHist == InitHist /\ [][NextHist]_vars

\* C23: in a placement iteration hydrogen 1 is a bin of maximal count, the
\* bins within half an Angstrom of it are zeroed and all others unchanged,
\* and hydrogen 2 is either the no-data result (0,0,0,0) or a bin of non-zero
\* count whose angle to hydrogen 1 is strictly inside the window of 5 degrees
\* around the ideal angle; a zero-count bin other than (0,0,0) is never
\* hydrogen 2.
C23_HydrogensFromHistogram ==
  feb.placed > 0 =>
    LET h == feb.h
    IN /\ \A p \in DOMAIN h.hGrid : h.hGrid[p] <= h.hGrid[h.maximum1.pos]
       /\ h.maximum1.count = h.hGrid[h.maximum1.pos]
       /\ \A p \in DOMAIN h.hGrid :
            h.deleted[p] = IF calcDistSqBetweenHGridPos(p, h.maximum1.pos) <= destroyDistanceSq
                           THEN 0 ELSE h.hGrid[p]
       /\ \/ h.maximum2 = NoMaximum
          \/ /\ h.maximum2.count # 0
             /\ h.deleted[h.maximum2.pos] = h.maximum2.count
             /\ angleInWindow(calcAngleBetweenHGridPos(h.maximum2.pos, h.maximum1.pos))

\* the samples of voxel v that have an orientation and an oriented partner in v
FoundNeighbour(v) == { i \in OrientedIn(v) : OrientedIn(v) \ {i} # {} }

\* the j-th sample of FoundNeighbour(v) in the order of the sample list
NthFound(v, j) ==
  CHOOSE i \in FoundNeighbour(v) : Cardinality({ x \in FoundNeighbour(v) : x < i }) = j - 1

\* the smallest orientational distance from sample i to another oriented sample of v
NearestOrientation(v, i) ==
  CHOOSE d \in { QuatDistance(centersAndRotations[v][i].quat, centersAndRotations[v][k].quat) :
                   k \in OrientedIn(v) \ {i} } :
    \A k \in OrientedIn(v) \ {i} :
      d <= QuatDistance(centersAndRotations[v][i].quat, centersAndRotations[v][k].quat)

\* C24: the orientational output of a voxel of population 2 or more has one
\* log term for every sample that has an orientation and an oriented partner
\* in the same voxel, the term being that of the nearest such partner; samples
\* without orientation or without oriented partner add no term, and the count
\* N of the mean and of log(N) is the number of samples that found a partner.
C24_OrientNeighboursWithinVoxel ==
  \A v \in Voxels :
    (population[v] >= 2 /\ (phase = "printed" \/ ~IsZero(dTS[v].orient))) =>
      /\ dTS[v].orient.n = Cardinality(FoundNeighbour(v))
      /\ Len(dTS[v].orient.terms) = Cardinality(FoundNeighbour(v))
      /\ \A j \in 1..Len(dTS[v].orient.terms) :
           dTS[v].orient.terms[j] = NearestOrientation(v, NthFound(v, j))

\* C24 witness: the post-processing completed for a voxel of three samples,
\* two with and one without orientation, and counted two
C24_Witness ==
  \E v \in Voxels :
    /\ phase = "printed"
    /\ population[v] = 3
    /\ Cardinality(OrientedIn(v)) = 2
    /\ dTS[v].orient.n = 2

\* C25: for every voxel each density-normalized entropy output is the
\* per-molecule output times population / (nFrames * voxelVolume): the factor
\* of the orientational, the translational and the six-dimensional output of
\* a voxel is its population, also when samples of the voxel have no
\* orientation.
C25_DensityFactorIsPopulation ==
  \A v \in Voxels :
    /\ dTS[v].orient.st = "value" => dTS[v].orient.densN = population[v]
    /\ dTS[v].trans.st = "value" => dTS[v].trans.densN = population[v]
    /\ dTS[v].six.st = "value" => dTS[v].six.densN = population[v]

\* the atoms of element e of the last frame that lie in voxel v and belong to
\* a molecule whose anchor was binned
AtomsOfAnchored(e, v) ==
  { ia \in (1..Len(top)) \X (1..3) :
      /\ ia[2] <= Len(top[ia[1]].elems)
      /\ AnchorInGrid(top[ia[1]], lastFrame[ia[1]])
      /\ top[ia[1]].elems[ia[2]] = e
      /\ BinCalc(Fine(lastFrame[ia[1]].pos[ia[2]]))
      /\ BinIndex(Fine(lastFrame[ia[1]].pos[ia[2]])) = v }

\* C26: a frame increments the per-atom-type density of a voxel only for
\* atoms of molecules whose anchor was binned in that frame: a molecule whose
\* anchor is outside of the grid adds to no per-atom-type density, even for
\* its atoms inside the grid.
C26_DensityOnlyWithAnchor ==
  (phase \in {"run", "crashed"} /\ lastFrame # << >>) =>
    \A e \in DOMAIN resultV : \A v \in Voxels :
      resultV[e][v] - before.resultV[e][v] <= Cardinality(AtomsOfAnchored(e, v))

(***************************************************************************)
(* The ordering specification: the entropy pass is run on a sample store,  *)
(* then two samples of one voxel change places in its list and the pass is *)
(* run again on the same samples.  The grid has 3 x 3 x 3 voxels; the      *)
(* interior voxel 13 holds one or two samples, the corner voxel 26, the    *)
(* last cell of layer 1 around voxel 13, two samples of later frames.      *)
(***************************************************************************)
\* the lists of voxel 13: a sample of frame 1, possibly one of frame 3
HomeLists ==
  { << [pos |-> << 3, 3, 3 >>, quat |-> q, frame |-> 1] >> : q \in {0, 1, NoQuat} }
  \cup { << [pos |-> << 3, 3, 3 >>, quat |-> q, frame |-> 1],
            [pos |-> << 2, 3, 3 >>, quat |-> r, frame |-> 3] >> :
            q \in {0, 1, NoQuat}, r \in {0, 1} }

\* the lists of voxel 26: a sample of frame 2 and one of frame 6
CornerLists ==
  { << [pos |-> p, quat |-> q, frame |-> 2], [pos |-> r, quat |-> u, frame |-> 6] >> :
      p \in { << 4, 4, 4 >>, << 5, 4, 4 >> }, q \in {0, 1},
      r \in { << 4, 4, 4 >>, << 5, 4, 4 >> }, u \in {0, 1} }

InitOrder ==
  /\ phase = "run"
  /\ top = << Water >>
  /\ info = [SetupInfo(<< Water >>, << 3, 3, 3 >>, 2, FALSE, FALSE, TRUE) EXCEPT !.nFrames = 6]
  /\ \E home \in HomeLists : \E corner \in CornerLists :
       /\ centersAndRotations =
            [v \in 0..26 |-> IF v = 13 THEN home ELSE IF v = 26 THEN corner ELSE << >>]
       /\ population = [v \in 0..26 |-> IF v = 13 THEN Len(home) ELSE IF v = 26 THEN 2 ELSE 0]
       /\ resultV = [e \in {"O", "H"} |->
                       [v \in 0..26 |-> (IF e = "H" THEN 2 ELSE 1)
                          * (IF v = 13 THEN Len(home) ELSE IF v = 26 THEN 2 ELSE 0)]]
  /\ dipole = [v \in 0..26 |-> << 0, 0, 0 >>]
  /\ energy = [d \in {"order", "neighbour", "Eww", "Esw"} |-> [v \in 0..26 |-> 0]]
  /\ hVectors = [v \in 0..26 |-> << >>]
  /\ lastFrame = << >> /\ anchored = 0 /\ before = << >>
  /\ dTS = [v \in 0..26 |-> [orient |-> Zero, trans |-> Zero, six |-> Zero]]
  /\ nn = [c |-> NoCounters, concerning |-> 0, log |-> << >>]
  /\ out = NoOutput
  /\ args = << >> /\ six = << >> /\ lay = << >> /\ feb = << >> /\ thr = << >>

\* the list xs with the samples at the places i and k exchanged
Exchanged(xs, i, k) ==
  [j \in 1..Len(xs) |-> IF j = i THEN xs[k] ELSE IF j = k THEN xs[i] ELSE xs[j]]

\* after a completed pass its results are put aside in lay, two samples of
\* one voxel change places, and the outputs are back at their initial values
ExchangeSamples ==
  /\ phase = "printed"
  /\ lay = << >>
  /\ \E v \in Voxels : \E i, k \in 1..Len(centersAndRotations[v]) :
       /\ i < k
       /\ centersAndRotations' =
            [centersAndRotations EXCEPT ![v] = Exchanged(centersAndRotations[v], i, k)]
  /\ lay' = << [dTS |-> dTS, c |-> nn.c, concerning |-> nn.concerning] >>
  /\ dTS' = [v \in Voxels |-> [orient |-> Zero, trans |-> Zero, six |-> Zero]]
  /\ nn' = [c |-> NoCounters, concerning |-> 0, log |-> << >>]
  /\ out' = NoOutput
  /\ phase' = "run"
  /\ UNCHANGED << info, top, population, dipole, resultV, energy, hVectors,
                  lastFrame, anchored, before, args, six, feb, thr >>

NextOrder == PrintGist \/ ExchangeSamples

SpecOrder == InitOrder /\ [][NextOrder]_vars

\* two entropy outputs are the same sum: the same log terms, however
\* ordered, the same divisor and the same density factor
SameSum(a, b) ==
  /\ a.st = b.st /\ a.n = b.n /\ a.densN = b.densN
  /\ Len(a.terms) = Len(b.terms)
  /\ \A j \in 1..Len(a.terms) :
       Cardinality({ x \in 1..Len(a.terms) : a.terms[x] = a.terms[j] })
         = Cardinality({ x \in 1..Len(b.terms) : b.terms[x] = a.terms[j] })

C28_SelectedVoxelIsLowered ==
  (feb.placed > 0 /\ RLess(RZero, feb.last.relPopBefore[feb.last.index])) =>
    RLess(feb.relPop[feb.last.index], feb.last.relPopBefore[feb.last.index])

(***************************************************************************)
(* The placement specification with densities below that of one bulk      *)
(* water: every voxel starts with 0 .. DensParts - 1 parts of 1 / DensParts *)
(* of it, so that the shells can be exhausted before one water is reached. *)
(***************************************************************************)
DensParts == 3

InitFebissParts ==
  /\ AfterSetup(SetupInfo(<< Water >>, << 3, 2, 1 >>, 2, FALSE, TRUE, TRUE), << Water >>)
  /\ \E relPop \in [0..5 -> { Rat(k, DensParts) : k \in 0..(DensParts - 1) }] :
       feb = [relPop |-> relPop, placed |-> 0, last |-> << >>]
  /\ args = << >> /\ six = << >> /\ lay = << >> /\ thr = << >>

SpecFebissParts == InitFebissParts /\ [][NextFebiss]_vars

\* C29: after every placement iteration the relative density of every voxel
\* is not negative and not above what it was before the iteration, so that
\* across the iterations it stays between 0 and its value before placement
\* started, also when the shells were exhausted before the density of one
\* bulk water was reached.
C29_DensityStaysInRange ==
  feb.placed > 0 =>
    \A v \in Voxels :
      /\ ~RLess(feb.relPop[v], RZero)
      /\ ~RLess(feb.last.relPopBefore[v], feb.relPop[v])

\* C30: calcOrientEntropy never divides by a neighbour count of zero: no
\* orientational output is the result of 0 * log(0) and a division by 0, and
\* a voxel of population 2 or more in which fewer than two samples have an
\* orientation has an orientational entropy of zero.
C30_OrientCountIsPositive ==
  \A v \in Voxels :
    /\ dTS[v].orient.st # "nan"
    /\ (population[v] >= 2 /\ Cardinality(OrientedIn(v)) < 2) => IsZero(dTS[v].orient)

====
